---- MODULE Spec2Model ----
(***************************************************************************)
(* Drone operations coordinator: AssignmentManager, DecisionEngine,        *)
(* ConflictEngine, UrgentReassignmentService and Controller.               *)
(*                                                                         *)
(* Entities are records with one field per attribute of the dataclasses    *)
(* of src/models (Pilot, Drone, Mission).  The agent modules read some of  *)
(* these attributes under the names of the repository's other entity       *)
(* shape (mission.id for project_id, drone.id for drone_id, mission.budget *)
(* for mission_budget_inr, pilot.daily_rate for daily_rate_inr,            *)
(* mission.required_certifications for required_certs,                     *)
(* drone.maintenance_hours for maintenance_due); both names denote the     *)
(* same field here.  Dataclass equality is record equality.                *)
(*                                                                         *)
(* Python lists are sequences, dicts are functions over their key set.     *)
(* A call that raises leaves in `result` the exception's class in the      *)
(* field `raised`; the state changes made before the raise persist.        *)
(***************************************************************************)
EXTENDS Integers, Sequences, FiniteSets, TLC

VARIABLES
    sheetPilots,         \* system of record: pilot rows, name -> Pilot
    sheetDrones,         \* system of record: drone rows, drone_id -> Drone
    sheetMissions,       \* system of record: mission rows, project_id -> Mission
    pilots,              \* Controller.pilots   (list loaded by refresh_data)
    drones,              \* Controller.drones
    missions,            \* Controller.missions
    assignments,         \* Controller.assignment_manager.assignments
    assignment_history,  \* Controller.assignment_manager.assignment_history
    svc_assignments,     \* UrgentReassignmentService.assignment_manager.assignments
    svc_history,         \* UrgentReassignmentService.assignment_manager.assignment_history
    reassignment_log,    \* UrgentReassignmentService.reassignment_log
    result               \* what the last operation returned (or raised)

vars == <<sheetPilots, sheetDrones, sheetMissions, pilots, drones, missions,
          assignments, assignment_history, svc_assignments, svc_history,
          reassignment_log, result>>

sheetVars == <<sheetPilots, sheetDrones, sheetMissions>>
ctlData == <<pilots, drones, missions>>
ctlManager == <<assignments, assignment_history>>
svcVars == <<svc_assignments, svc_history, reassignment_log>>

----------------------------------------------------------------------------
(* Bounds *)

MaxHistory == 3      \* longest assignment history explored
MaxLog == 2          \* longest reassignment log explored
MaxDay == 3          \* last calendar day of the date ranges compared

----------------------------------------------------------------------------
(* The universe of records *)

PilotNames == {"p1", "p2"}
DroneIds == {"d1", "d2"}
MissionIds == {"m1", "m2", "m3"}

PilotOrder == <<"p1", "p2">>
DroneOrder == <<"d1", "d2">>
MissionOrder == <<"m1", "m2", "m3">>

NoName == "None"     \* Python None in an assigned_pilot / assigned_drone field
Ghost == "ghost"     \* an identity that is in no resource list

PilotStatuses == {"Available", "On Leave"}
DroneStatuses == {"Available", "Maintenance"}
MissionStatuses == {"Unassigned", "Assigned"}

\* models/pilot.py: the fields of a pilot row that do not change in the model
PilotLocation(n) == IF n = "p1" THEN "Delhi" ELSE "Mumbai"
PilotRate(n) == IF n = "p1" THEN 2 ELSE 1

Pilot(n, st, ca) ==
    [name |-> n, location |-> PilotLocation(n), skills |-> {"thermal"},
     certifications |-> {"dgca"}, status |-> st, current_assignment |-> ca,
     daily_rate_inr |-> PilotRate(n)]

DroneResistance(i) == IF i = "d1" THEN "IP67" ELSE "IP45"

Drone(i, st, ca) ==
    [drone_id |-> i, location |-> "Delhi", status |-> st,
     weather_resistance |-> DroneResistance(i), maintenance_due |-> 0,
     current_assignment |-> ca]

MissionStart(i) == IF i = "m1" THEN 1 ELSE IF i = "m2" THEN 2 ELSE 3
MissionEnd(i) == IF i = "m1" THEN 2 ELSE 3
MissionPriority(i) == IF i = "m3" THEN "Medium" ELSE "High"

Mission(i, st, ap, ad) ==
    [project_id |-> i, location |-> "Delhi",
     start_date |-> MissionStart(i), end_date |-> MissionEnd(i),
     required_skills |-> {"thermal"}, required_certs |-> {"dgca"},
     mission_budget_inr |-> 8, priority |-> MissionPriority(i),
     status |-> st, assigned_pilot |-> ap, assigned_drone |-> ad]

\* the records a direct caller of the manager passes: any snapshot of a
\* pilot row, the drone rows as first loaded
AllPilots == {Pilot(n, st, "") : n \in PilotNames, st \in PilotStatuses}
AllDrones == {Drone(i, "Available", "") : i \in DroneIds}

----------------------------------------------------------------------------
(* utils/data_parser.py *)

NoDate == 0          \* a date that failed to parse (None)

\* the comparison for ranges that exclude their last day
dates_overlap_exclusive(start1, end1, start2, end2) ==
    IF start1 = NoDate \/ end1 = NoDate \/ start2 = NoDate \/ end2 = NoDate
    THEN FALSE
    ELSE (start1 < end2) /\ (start2 < end1)

dates_overlap(start1, end1, start2, end2) ==
    IF start1 = NoDate \/ end1 = NoDate \/ start2 = NoDate \/ end2 = NoDate
    THEN FALSE
    ELSE (start1 <= end2) /\ (start2 <= end1)

----------------------------------------------------------------------------
(* utils/cost_utils.py *)

calculate_pilot_cost(daily_rate, mission_duration_days) ==
    IF daily_rate < 0 \/ mission_duration_days < 0 THEN 0
    ELSE daily_rate * mission_duration_days

is_within_budget(mission_budget, required_cost) ==
    IF mission_budget < 0 \/ required_cost < 0 THEN FALSE
    ELSE required_cost <= mission_budget

\* (mission.end_date - mission.start_date).days + 1
DurationDays(mission) == (mission.end_date - mission.start_date) + 1

----------------------------------------------------------------------------
(* agent/conflict_engine.py *)
(* A check returns the list of the conflicts it found (Optional[Dict] is   *)
(* a list of at most one).  A conflict is a dict; the urgent service also  *)
(* puts bare strings in a conflict list (kind = "str").                    *)

Conflict(type, severity, code) ==
    [kind |-> "dict", type |-> type, severity |-> severity, code |-> code,
     missing |-> {}, collisions |-> <<>>, overage |-> 0]

StrConflict(code) ==
    [kind |-> "str", type |-> "-", severity |-> "-", code |-> code,
     missing |-> {}, collisions |-> <<>>, overage |-> 0]

\* the value a function hands back: a list, or the exception it raised
Ret(list) == [raised |-> "none", list |-> list]
Exc(exc) == [raised |-> exc, list |-> <<>>]

check_pilot_availability(pilot) ==
    IF pilot.status # "Available"
    THEN <<Conflict("AVAILABILITY", "CRITICAL", "PILOT_NOT_AVAILABLE")>>
    ELSE <<>>

check_skills_match(pilot, mission) ==
    LET missing_skills == mission.required_skills \ pilot.skills
    IN  IF missing_skills # {}
        THEN <<[Conflict("SKILLS", "CRITICAL", "SKILL_MISMATCH") EXCEPT !.missing = missing_skills]>>
        ELSE <<>>

check_certifications_match(pilot, mission) ==
    LET missing_certs == mission.required_certs \ pilot.certifications
    IN  IF missing_certs # {}
        THEN <<[Conflict("CERTIFICATIONS", "CRITICAL", "CERT_MISMATCH") EXCEPT !.missing = missing_certs]>>
        ELSE <<>>

check_pilot_budget(pilot, mission) ==
    LET cost == calculate_pilot_cost(pilot.daily_rate_inr, DurationDays(mission))
    IN  IF ~is_within_budget(mission.mission_budget_inr, cost)
        THEN IF mission.mission_budget_inr = 0
             THEN Exc("ZeroDivisionError")        \* cost / mission.budget
             ELSE Ret(<<[Conflict("BUDGET", "HIGH", "BUDGET_OVERRUN")
                            EXCEPT !.overage = cost - mission.mission_budget_inr]>>)
        ELSE Ret(<<>>)

RECURSIVE OverlappingOthers(_, _)
OverlappingOthers(mission, other_missions) ==
    IF other_missions = <<>> THEN <<>>
    ELSE LET other == Head(other_missions)
             rest == OverlappingOthers(mission, Tail(other_missions))
         IN  IF other.project_id = mission.project_id THEN rest
             ELSE IF dates_overlap(mission.start_date, mission.end_date,
                                   other.start_date, other.end_date)
             THEN <<other.project_id>> \o rest
             ELSE rest

\* other_missions = <<>> stands for None as well as for the empty list
check_date_overlap(pilot, mission, other_missions) ==
    LET conflicts == OverlappingOthers(mission, other_missions)
    IN  IF conflicts # <<>>
        THEN <<[Conflict("DOUBLE_BOOKING", "CRITICAL", "DATE_OVERLAP") EXCEPT !.collisions = conflicts]>>
        ELSE <<>>

check_location_mismatch(pilot, mission) ==
    IF pilot.location # mission.location
    THEN <<Conflict("LOCATION", "WARNING", "LOCATION_MISMATCH")>>
    ELSE <<>>

check_drone_availability(drone) ==
    IF drone.status # "Available"
    THEN <<Conflict("AVAILABILITY", "CRITICAL", "DRONE_NOT_AVAILABLE")>>
    ELSE <<>>

check_drone_maintenance(drone, mission) ==
    IF drone.maintenance_due > 0
    THEN <<Conflict("MAINTENANCE", "HIGH", "MAINTENANCE_REQUIRED")>>
    ELSE <<>>

check_drone_date_overlap(drone, mission, other_missions) ==
    LET conflicts == OverlappingOthers(mission, other_missions)
    IN  IF conflicts # <<>>
        THEN <<[Conflict("DOUBLE_BOOKING", "CRITICAL", "DRONE_DATE_OVERLAP") EXCEPT !.collisions = conflicts]>>
        ELSE <<>>

check_weather_compatibility(drone, mission) == <<>>

\* the pilot check that goes on after an availability conflict
check_pilot_assignment_accumulating(pilot, mission, other_missions) ==
    Ret(check_pilot_availability(pilot)
        \o check_skills_match(pilot, mission)
        \o check_certifications_match(pilot, mission)
        \o check_date_overlap(pilot, mission, other_missions)
        \o check_location_mismatch(pilot, mission))

check_pilot_assignment(pilot, mission, other_missions) ==
    LET availability == check_pilot_availability(pilot)
        budget == check_pilot_budget(pilot, mission)
    IN  IF availability # <<>> THEN Ret(availability)
        ELSE IF budget.raised # "none" THEN Exc(budget.raised)
        ELSE Ret(check_skills_match(pilot, mission)
                 \o check_certifications_match(pilot, mission)
                 \o budget.list
                 \o check_date_overlap(pilot, mission, other_missions)
                 \o check_location_mismatch(pilot, mission))

check_drone_assignment(drone, mission, other_missions) ==
    LET availability == check_drone_availability(drone)
    IN  IF availability # <<>> THEN Ret(availability)
        ELSE Ret(check_drone_maintenance(drone, mission)
                 \o check_drone_date_overlap(drone, mission, other_missions)
                 \o check_weather_compatibility(drone, mission))

RECURSIVE CountSeverity(_, _)
CountSeverity(conflicts, critical) ==
    IF conflicts = <<>> THEN 0
    ELSE (IF (Head(conflicts).severity = "CRITICAL") = critical THEN 1 ELSE 0)
         + CountSeverity(Tail(conflicts), critical)

NoReport ==
    [viable_pilots |-> 0, viable_drones |-> 0, critical_blocks |-> 0,
     warnings |-> 0, present |-> FALSE]

\* the summary of the report; rep is the summary so far
RECURSIVE ReportPilots(_, _, _, _)
ReportPilots(mission, ps, other_missions, rep) ==
    IF ps = <<>> THEN [raised |-> "none", rep |-> rep]
    ELSE LET c == check_pilot_assignment(Head(ps), mission, other_missions)
         IN  IF c.raised # "none" THEN [raised |-> c.raised, rep |-> rep]
             ELSE ReportPilots(mission, Tail(ps), other_missions,
                     [rep EXCEPT !.viable_pilots = @ + (IF c.list = <<>> THEN 1 ELSE 0),
                                 !.critical_blocks = @ + CountSeverity(c.list, TRUE),
                                 !.warnings = @ + CountSeverity(c.list, FALSE)])

RECURSIVE ReportDrones(_, _, _, _)
ReportDrones(mission, ds, other_missions, rep) ==
    IF ds = <<>> THEN [raised |-> "none", rep |-> rep]
    ELSE LET c == check_drone_assignment(Head(ds), mission, other_missions)
         IN  ReportDrones(mission, Tail(ds), other_missions,
                     [rep EXCEPT !.viable_drones = @ + (IF c.list = <<>> THEN 1 ELSE 0),
                                 !.critical_blocks = @ + CountSeverity(c.list, TRUE),
                                 !.warnings = @ + CountSeverity(c.list, FALSE)])

generate_conflict_report(mission, ps, ds, other_missions) ==
    LET p == ReportPilots(mission, ps, other_missions, [NoReport EXCEPT !.present = TRUE])
    IN  IF p.raised # "none" THEN p
        ELSE ReportDrones(mission, ds, other_missions, p.rep)

----------------------------------------------------------------------------
(* agent/decision_engine.py *)

\* round(n / d, 0) for n >= 0, d > 0 (scores are kept in hundredths)
RoundDiv(n, d) == (2 * n + d) \div (2 * d)

\* the assigned_pilots / assigned_drones argument: a dict identity -> mission
\* as the engine expects, or the list of identities the manager passes
EmptyDict == [kind |-> "dict", keys |-> {}]
IdList(ids) == [kind |-> "list", keys |-> ids]

\* an int passed in the place of the dict
IntArg(n) == [kind |-> "int", keys |-> {}, n |-> n]

\* assigned_pilots or {}: an empty dict, an empty list and 0 are falsy
OrEmptyDict(assigned) ==
    IF assigned.kind = "int" THEN (IF assigned.n = 0 THEN EmptyDict ELSE assigned)
    ELSE IF assigned.keys = {} THEN EmptyDict ELSE assigned

\* score in hundredths
_calculate_pilot_score(pilot, mission, cost) ==
    LET ls == Cardinality(mission.required_skills)
        lc == Cardinality(mission.required_certs)
        ms == Cardinality(mission.required_skills \cap pilot.skills)
        mc == Cardinality(mission.required_certs \cap pilot.certifications)
        b  == IF mission.mission_budget_inr > 1 THEN mission.mission_budget_inr ELSE 1
        skill_score == IF ls > 0 THEN RoundDiv(4000 * ms, ls) ELSE 4000
        cert_score == IF lc > 0 THEN RoundDiv(3000 * mc, lc) ELSE 3000
        cost_score == IF cost >= b THEN 0 ELSE 2000 - RoundDiv(2000 * cost, b)
        location_score == IF pilot.location = mission.location THEN 1000 ELSE 500
    IN  skill_score + cert_score + cost_score + location_score

PilotPasses(pilot, mission) ==
    /\ pilot.status = "Available"
    /\ mission.required_skills \subseteq pilot.skills
    /\ mission.required_certs \subseteq pilot.certifications

\* the candidates in list order, before the sort
RECURSIVE PilotCandidates(_, _, _)
PilotCandidates(mission, ps, assigned) ==
    IF ps = <<>> THEN <<>>
    ELSE LET pilot == Head(ps)
             rest == PilotCandidates(mission, Tail(ps), assigned)
             cost == calculate_pilot_cost(pilot.daily_rate_inr, DurationDays(mission))
         IN  IF ~PilotPasses(pilot, mission) THEN rest
             ELSE IF pilot.name \in assigned.keys
                     /\ dates_overlap(mission.start_date, mission.end_date,
                                      assigned.at[pilot.name].start_date,
                                      assigned.at[pilot.name].end_date) THEN rest
             ELSE IF ~is_within_budget(mission.mission_budget_inr, cost) THEN rest
             ELSE <<[pilot |-> pilot, cost |-> cost,
                     score |-> _calculate_pilot_score(pilot, mission, cost)]>> \o rest

\* list.sort(key) is stable: insert after the entries whose key is not greater
RECURSIVE InsertByCost(_, _)
InsertByCost(sorted, c) ==
    IF sorted = <<>> THEN <<c>>
    ELSE IF Head(sorted).cost <= c.cost THEN <<Head(sorted)>> \o InsertByCost(Tail(sorted), c)
    ELSE <<c>> \o sorted

RECURSIVE SortByCost(_, _)
SortByCost(sorted, todo) ==
    IF todo = <<>> THEN sorted
    ELSE SortByCost(InsertByCost(sorted, Head(todo)), Tail(todo))

\* the matching that leaves the candidates in list order
match_pilots_unsorted(mission, ps, assigned_pilots) ==
    Ret(PilotCandidates(mission, ps, OrEmptyDict(assigned_pilots)))

match_pilots(mission, ps, assigned_pilots) ==
    LET assigned == OrEmptyDict(assigned_pilots)
        Hits(pilot) == PilotPasses(pilot, mission) /\ pilot.name \in assigned.keys
    IN  IF assigned.kind = "int" /\ \E i \in 1..Len(ps) : PilotPasses(ps[i], mission)
        THEN Exc("TypeError")          \* pilot.name in assigned_pilots on an int
        ELSE IF assigned.kind = "list" /\ \E i \in 1..Len(ps) : Hits(ps[i])
        THEN Exc("TypeError")          \* assigned_pilots[pilot.name] on a list
        ELSE Ret(SortByCost(<<>>, PilotCandidates(mission, ps, assigned)))

_check_weather_compatibility(drone, mission) == TRUE

WeatherScore(rating) ==
    IF rating = "IP20" THEN 10
    ELSE IF rating = "IP45" THEN 20
    ELSE IF rating = "IP54" THEN 25
    ELSE IF rating = "IP67" THEN 30
    ELSE IF rating = "Waterproof" THEN 30
    ELSE 15

\* score in whole points
_calculate_drone_score(drone, mission) ==
    50 + WeatherScore(drone.weather_resistance)
       + (IF drone.location = mission.location THEN 20 ELSE 10)

DronePasses(drone, mission) ==
    /\ drone.status = "Available"
    /\ _check_weather_compatibility(drone, mission)

RECURSIVE DroneCandidates(_, _, _)
DroneCandidates(mission, ds, assigned) ==
    IF ds = <<>> THEN <<>>
    ELSE LET drone == Head(ds)
             rest == DroneCandidates(mission, Tail(ds), assigned)
         IN  IF ~DronePasses(drone, mission) THEN rest
             ELSE IF drone.drone_id \in assigned.keys
                     /\ dates_overlap(mission.start_date, mission.end_date,
                                      assigned.at[drone.drone_id].start_date,
                                      assigned.at[drone.drone_id].end_date) THEN rest
             \* maintenance_ok is always True: outstanding hours reject nothing
             ELSE <<[drone |-> drone, score |-> _calculate_drone_score(drone, mission)]>> \o rest

\* sort(key, reverse=True) keeps the list order of equal scores
RECURSIVE InsertByScoreDesc(_, _)
InsertByScoreDesc(sorted, c) ==
    IF sorted = <<>> THEN <<c>>
    ELSE IF Head(sorted).score >= c.score THEN <<Head(sorted)>> \o InsertByScoreDesc(Tail(sorted), c)
    ELSE <<c>> \o sorted

RECURSIVE SortByScoreDesc(_, _)
SortByScoreDesc(sorted, todo) ==
    IF todo = <<>> THEN sorted
    ELSE SortByScoreDesc(InsertByScoreDesc(sorted, Head(todo)), Tail(todo))

match_drones(mission, ds, assigned_drones) ==
    LET assigned == OrEmptyDict(assigned_drones)
        Hits(drone) == DronePasses(drone, mission) /\ drone.drone_id \in assigned.keys
    IN  IF assigned.kind = "list" /\ \E i \in 1..Len(ds) : Hits(ds[i])
        THEN Exc("TypeError")          \* assigned_drones[drone.id] on a list
        ELSE Ret(SortByScoreDesc(<<>>, DroneCandidates(mission, ds, assigned)))

\* Optional[Dict]: found = FALSE is None
NoneFound == [raised |-> "none", found |-> FALSE]

find_best_assignment(mission, ps, ds, assigned_pilots, assigned_drones) ==
    LET valid_pilots == match_pilots(mission, ps, OrEmptyDict(assigned_pilots))
        valid_drones == match_drones(mission, ds, OrEmptyDict(assigned_drones))
    IN  IF valid_pilots.raised # "none" THEN [raised |-> valid_pilots.raised, found |-> FALSE]
        ELSE IF valid_drones.raised # "none" THEN [raised |-> valid_drones.raised, found |-> FALSE]
        ELSE IF valid_pilots.list = <<>> \/ valid_drones.list = <<>> THEN NoneFound
        ELSE LET best_pilot == valid_pilots.list[1]
                 best_drone == valid_drones.list[1]
             IN  [raised |-> "none", found |-> TRUE,
                  pilot |-> best_pilot.pilot, drone |-> best_drone.drone,
                  pilot_cost |-> best_pilot.cost,
                  pilot_score |-> best_pilot.score,        \* hundredths
                  drone_score |-> best_drone.score,
                  \* total_score = (pilot_score + drone_score) / 2, kept doubled, in hundredths
                  total_score_x2 |-> best_pilot.score + 100 * best_drone.score]

\* the value of top_n when the caller does not pass it
DefaultTopN == 5

\* for drone_match in valid_drones: one entry per drone for the pilot
RECURSIVE DronesFor(_, _)
DronesFor(pilot_match, valid_drones) ==
    IF valid_drones = <<>> THEN <<>>
    ELSE <<[pilot |-> pilot_match.pilot, drone |-> Head(valid_drones).drone,
            pilot_cost |-> pilot_match.cost,
            pilot_score |-> pilot_match.score,
            drone_score |-> Head(valid_drones).score,
            \* combined_score = (pilot_score + drone_score) / 2, doubled, in hundredths
            combined_score_x2 |-> pilot_match.score + 100 * Head(valid_drones).score]>>
         \o DronesFor(pilot_match, Tail(valid_drones))

\* for pilot_match in valid_pilots: the cross product in loop order
RECURSIVE AllPairs(_, _)
AllPairs(valid_pilots, valid_drones) ==
    IF valid_pilots = <<>> THEN <<>>
    ELSE DronesFor(Head(valid_pilots), valid_drones) \o AllPairs(Tail(valid_pilots), valid_drones)

RECURSIVE InsertByCombinedDesc(_, _)
InsertByCombinedDesc(sorted, c) ==
    IF sorted = <<>> THEN <<c>>
    ELSE IF Head(sorted).combined_score_x2 >= c.combined_score_x2
    THEN <<Head(sorted)>> \o InsertByCombinedDesc(Tail(sorted), c)
    ELSE <<c>> \o sorted

RECURSIVE SortByCombinedDesc(_, _)
SortByCombinedDesc(sorted, todo) ==
    IF todo = <<>> THEN sorted
    ELSE SortByCombinedDesc(InsertByCombinedDesc(sorted, Head(todo)), Tail(todo))

\* top_n >= 0
rank_assignments(mission, ps, ds, assigned_pilots, assigned_drones, top_n) ==
    LET valid_pilots == match_pilots(mission, ps, OrEmptyDict(assigned_pilots))
        valid_drones == match_drones(mission, ds, OrEmptyDict(assigned_drones))
        assignments_sorted == SortByCombinedDesc(<<>>, AllPairs(valid_pilots.list, valid_drones.list))
    IN  IF valid_pilots.raised # "none" THEN Exc(valid_pilots.raised)
        ELSE IF valid_drones.raised # "none" THEN Exc(valid_drones.raised)
        ELSE Ret(SubSeq(assignments_sorted, 1,
                        IF top_n < Len(assignments_sorted) THEN top_n
                        ELSE Len(assignments_sorted)))

----------------------------------------------------------------------------
(* The result of an operation *)

NoResult ==
    [op |-> "init", raised |-> "none", success |-> FALSE, status |-> "-",
     reason |-> "-", mission_id |-> "-", previous_pilot |-> "-",
     previous_drone |-> "-", new_pilot |-> "-", new_drone |-> "-",
     conflicts |-> <<>>, report |-> NoReport]

Raise(op, exc, mid) ==
    [NoResult EXCEPT !.op = op, !.raised = exc, !.mission_id = mid]

----------------------------------------------------------------------------
(* agent/assignment_manager.py *)

NoneSlot == [live |-> FALSE]        \* self.assignments[mission_id] = None

LiveSlot(mission, pilot, drone) ==
    [live |-> TRUE, mission |-> mission, pilot |-> pilot, drone |-> drone]

HistoryEntry(action, mid, pilot_name, drone_id) ==
    [action |-> action, mission_id |-> mid, pilot |-> pilot_name, drone |-> drone_id]

\* dict store: d[k] = v
Put(d, k, v) == [x \in (DOMAIN d) \cup {k} |-> IF x = k THEN v ELSE d[x]]

get_assigned_missions(a, pilot) ==
    {a[k].mission : k \in {x \in DOMAIN a : a[x].live /\ a[x].pilot = pilot}}

get_assigned_missions_drone(a, drone) ==
    {a[k].mission : k \in {x \in DOMAIN a : a[x].live /\ a[x].drone = drone}}

is_pilot_available(a, pilot, mission) ==
    \A am \in get_assigned_missions(a, pilot) :
        ~dates_overlap(mission.start_date, mission.end_date,
                       am.start_date, am.end_date)

is_drone_available(a, drone, mission) ==
    \A am \in get_assigned_missions_drone(a, drone) :
        ~dates_overlap(mission.start_date, mission.end_date,
                       am.start_date, am.end_date)

\* The three operations return the manager's new state and the call's result.
AMOut(a, h, r) == [a |-> a, h |-> h, r |-> r]

assign_mission(a, h, mission, pilot, drone) ==
    IF ~is_pilot_available(a, pilot, mission)
    THEN AMOut(a, h, [NoResult EXCEPT !.op = "assign", !.reason = "Pilot schedule conflict",
                                      !.mission_id = mission.project_id,
                                      !.new_pilot = pilot.name])
    ELSE IF ~is_drone_available(a, drone, mission)
    THEN AMOut(a, h, [NoResult EXCEPT !.op = "assign", !.reason = "Drone schedule conflict",
                                      !.mission_id = mission.project_id,
                                      !.new_drone = drone.drone_id])
    ELSE AMOut(Put(a, mission.project_id, LiveSlot(mission, pilot, drone)),
               Append(h, HistoryEntry("ASSIGN", mission.project_id, pilot.name, drone.drone_id)),
               [NoResult EXCEPT !.op = "assign", !.success = TRUE,
                                !.mission_id = mission.project_id,
                                !.new_pilot = pilot.name, !.new_drone = drone.drone_id])

unassign_mission(a, h, mid) ==
    IF mid \notin DOMAIN a
    THEN AMOut(a, h, [NoResult EXCEPT !.op = "unassign", !.reason = "Mission not assigned",
                                      !.mission_id = mid])
    ELSE IF ~a[mid].live
    \* assignment is None: assignment.get(...) raises before the append
    THEN AMOut(Put(a, mid, NoneSlot), h, Raise("unassign", "AttributeError", mid))
    ELSE AMOut(Put(a, mid, NoneSlot),
               Append(h, HistoryEntry("UNASSIGN", mid, a[mid].pilot.name, a[mid].drone.drone_id)),
               [NoResult EXCEPT !.op = "unassign", !.success = TRUE, !.mission_id = mid])

\* reassign that does not retire the old assignment first
reassign_mission_no_unassign(a, h, mission, pilot, drone) ==
    LET s == assign_mission(a, h, mission, pilot, drone)
    IN  AMOut(s.a, s.h, [s.r EXCEPT !.op = "reassign"])

reassign_mission(a, h, mission, pilot, drone) ==
    IF mission.project_id \in DOMAIN a
    THEN LET u == unassign_mission(a, h, mission.project_id)
         IN  IF u.r.raised # "none"
             THEN AMOut(u.a, u.h, [u.r EXCEPT !.op = "reassign"])
             ELSE LET s == assign_mission(u.a, u.h, mission, pilot, drone)
                  IN  AMOut(s.a, s.h, [s.r EXCEPT !.op = "reassign"])
    ELSE LET s == assign_mission(a, h, mission, pilot, drone)
         IN  AMOut(s.a, s.h, [s.r EXCEPT !.op = "reassign"])

\* a pool that is not filtered by the live assignments
get_available_pilots_unfiltered(a, mission, ps) == ps

RECURSIVE get_available_pilots(_, _, _)
get_available_pilots(a, mission, ps) ==
    IF ps = <<>> THEN <<>>
    ELSE (IF is_pilot_available(a, Head(ps), mission) THEN <<Head(ps)>> ELSE <<>>)
         \o get_available_pilots(a, mission, Tail(ps))

RECURSIVE get_available_drones(_, _, _)
get_available_drones(a, mission, ds) ==
    IF ds = <<>> THEN <<>>
    ELSE (IF is_drone_available(a, Head(ds), mission) THEN <<Head(ds)>> ELSE <<>>)
         \o get_available_drones(a, mission, Tail(ds))

get_all_assignments(a) == {a[k] : k \in {x \in DOMAIN a : a[x].live}}

\* a search that consults neither the live map nor the assigned identities
find_best_assignment_for_mission_unfiltered(a, mission, ps, ds) ==
    find_best_assignment(mission, ps, ds, EmptyDict, EmptyDict)

find_best_assignment_for_mission(a, mission, ps, ds) ==
    LET available_pilots == get_available_pilots(a, mission, ps)
        available_drones == get_available_drones(a, mission, ds)
        assigned_pilot_ids == {s.pilot.name : s \in get_all_assignments(a)}
        assigned_drone_ids == {s.drone.drone_id : s \in get_all_assignments(a)}
    IN  IF available_pilots = <<>> \/ available_drones = <<>> THEN NoneFound
        ELSE find_best_assignment(mission, available_pilots, available_drones,
                                  IdList(assigned_pilot_ids), IdList(assigned_drone_ids))

----------------------------------------------------------------------------
(* services/sheets_service.py: the sheet is the system of record (real     *)
(* mode, use_mock = False); reading it is assumed to succeed.              *)

RECURSIVE ListOf(_, _)
ListOf(order, table) ==
    IF order = <<>> THEN <<>>
    ELSE <<table[Head(order)]>> \o ListOf(Tail(order), table)

\* the three tables after assign_mission_detail found and wrote the mission row
SheetAssigned(sp, sd, sm, mid, pilot_name, drone_id) ==
    [sp |-> [n \in DOMAIN sp |->
                IF n = pilot_name THEN [sp[n] EXCEPT !.current_assignment = mid] ELSE sp[n]],
     sd |-> [i \in DOMAIN sd |->
                IF i = drone_id THEN [sd[i] EXCEPT !.current_assignment = mid] ELSE sd[i]],
     sm |-> [sm EXCEPT ![mid].status = "Assigned",
                       ![mid].assigned_pilot = pilot_name,
                       ![mid].assigned_drone = drone_id]]

----------------------------------------------------------------------------
(* agent/urgent_reassignment.py *)

RECURSIVE FindBy(_, _, _)
\* next((x for x in list if x.<field> == value), None), as a list of at most one
FindBy(list, field, value) ==
    IF list = <<>> THEN <<>>
    ELSE IF Head(list)[field] = value THEN <<Head(list)>>
    ELSE FindBy(Tail(list), field, value)

\* the validity check without the shortcut for unassigned missions
check_mission_validity_no_shortcut(mission, ps, ds) ==
    LET assigned_pilot == FindBy(ps, "name", mission.assigned_pilot)
        assigned_drone == FindBy(ds, "drone_id", mission.assigned_drone)
    IN  IF assigned_pilot = <<>> \/ assigned_drone = <<>>
        THEN [raised |-> "none", valid |-> FALSE,
              conflicts |-> <<StrConflict(IF assigned_pilot = <<>> THEN "MISSING_PILOT"
                                          ELSE "MISSING_DRONE")>>]
        ELSE [raised |-> "none", valid |-> TRUE, conflicts |-> <<>>]

check_mission_validity(mission, ps, ds) ==
    LET assigned_pilot == FindBy(ps, "name", mission.assigned_pilot)
        assigned_drone == FindBy(ds, "drone_id", mission.assigned_drone)
    IN  IF mission.status = "Unassigned"
        THEN [raised |-> "none", valid |-> TRUE, conflicts |-> <<>>]
        ELSE IF assigned_pilot = <<>> \/ assigned_drone = <<>>
        THEN [raised |-> "none", valid |-> FALSE,
              conflicts |-> <<StrConflict(IF assigned_pilot = <<>> THEN "MISSING_PILOT"
                                          ELSE "MISSING_DRONE")>>]
        ELSE LET pilot_conflicts == check_pilot_assignment(assigned_pilot[1], mission, <<>>)
                 drone_conflicts == check_drone_assignment(assigned_drone[1], mission, <<>>)
             IN  IF pilot_conflicts.raised # "none"
                 THEN [raised |-> pilot_conflicts.raised, valid |-> FALSE, conflicts |-> <<>>]
                 ELSE [raised |-> "none",
                       valid |-> pilot_conflicts.list = <<>> /\ drone_conflicts.list = <<>>,
                       conflicts |-> pilot_conflicts.list \o drone_conflicts.list]

\* ', '.join(conflicts) raises on an item that is not a str
JoinRaises(conflicts) == \E i \in 1..Len(conflicts) : conflicts[i].kind # "str"

\* str.lower() on the priorities of the model
Lower(priority) ==
    IF priority \in {"High", "HIGH", "high"} THEN "high"
    ELSE IF priority \in {"Urgent", "URGENT", "urgent"} THEN "urgent"
    ELSE IF priority \in {"Medium", "MEDIUM", "medium"} THEN "medium"
    ELSE IF priority \in {"Low", "LOW", "low"} THEN "low"
    ELSE priority

\* The service's state: its manager (a, h), its log, and the sheet it writes.
SvcState(a, h, log, sp, sd, sm) ==
    [a |-> a, h |-> h, log |-> log, sp |-> sp, sd |-> sd, sm |-> sm]

SvcOut(s, r) == [s |-> s, r |-> r]

UrgentResult(status, mission, reason) ==
    [NoResult EXCEPT !.op = "urgent", !.status = status,
                     !.mission_id = mission.project_id, !.reason = reason,
                     !.previous_pilot = mission.assigned_pilot,
                     !.previous_drone = mission.assigned_drone]

\* a result that is returned without being appended to the log
Logged_not_appended(s, r) == SvcOut(s, r)

Logged(s, r) == SvcOut([s EXCEPT !.log = Append(@, r)], r)

\* sheet_ok: whether the write to the sheet succeeds in this call
handle_urgent_mission(s, mission_id, ps, ds, ms, sheet_ok) ==
    LET found == FindBy(ms, "project_id", mission_id)
    IN
    IF found = <<>>
    THEN SvcOut(s, [NoResult EXCEPT !.op = "urgent", !.status = "ERROR",
                                    !.mission_id = mission_id, !.reason = "not found"])
    ELSE
    LET mission == found[1]
        validity_check == check_mission_validity(mission, ps, ds)
        available_pilots == get_available_pilots(s.a, mission, ps)
        available_drones == get_available_drones(s.a, mission, ds)
        best_assignment == find_best_assignment(mission, available_pilots, available_drones,
                                                EmptyDict, EmptyDict)
    IN
    IF Lower(mission.priority) \notin {"high", "urgent"}
    THEN SvcOut(s, [NoResult EXCEPT !.op = "urgent", !.status = "NO_ACTION",
                                    !.mission_id = mission_id, !.reason = "not high or urgent"])
    ELSE IF validity_check.raised # "none"
    THEN SvcOut(s, Raise("urgent", validity_check.raised, mission_id))
    ELSE IF validity_check.valid
    THEN SvcOut(s, [NoResult EXCEPT !.op = "urgent", !.status = "NO_ACTION",
                                    !.mission_id = mission_id, !.reason = "valid"])
    ELSE IF JoinRaises(validity_check.conflicts)
    THEN SvcOut(s, Raise("urgent", "TypeError", mission_id))
    ELSE IF available_pilots = <<>> \/ available_drones = <<>>
    THEN Logged(s, [UrgentResult("UNASSIGNABLE", mission, "No available pilots or drones")
                        EXCEPT !.conflicts = validity_check.conflicts])
    ELSE IF best_assignment.raised # "none"
    THEN SvcOut(s, Raise("urgent", best_assignment.raised, mission_id))
    ELSE IF ~best_assignment.found
    THEN Logged(s, [UrgentResult("UNASSIGNABLE", mission, "DecisionEngine found no suitable assignment")
                        EXCEPT !.conflicts = validity_check.conflicts])
    ELSE
    LET new_pilot == best_assignment.pilot
        new_drone == best_assignment.drone
        new_mission == [mission EXCEPT !.status = "Assigned",
                                       !.assigned_pilot = new_pilot.name,
                                       !.assigned_drone = new_drone.drone_id]
        update_result == reassign_mission(s.a, s.h, new_mission, new_pilot, new_drone)
        s1 == [s EXCEPT !.a = update_result.a, !.h = update_result.h]
        w == SheetAssigned(s.sp, s.sd, s.sm, mission_id, new_pilot.name, new_drone.drone_id)
        s2 == IF sheet_ok THEN [s1 EXCEPT !.sp = w.sp, !.sd = w.sd, !.sm = w.sm] ELSE s1
    IN
    IF update_result.r.raised # "none"
    \* except Exception: the fault becomes an ERROR entry
    THEN Logged(s1, [UrgentResult("ERROR", mission, update_result.r.raised)
                        EXCEPT !.conflicts = validity_check.conflicts])
    ELSE IF JoinRaises(validity_check.conflicts)
    \* the reason string of the result is joined inside the try block
    THEN Logged(s2, [UrgentResult("ERROR", mission, "TypeError")
                        EXCEPT !.conflicts = validity_check.conflicts])
    ELSE Logged(s2, [UrgentResult("REASSIGNED", mission, "Reassigned")
                        EXCEPT !.new_pilot = new_pilot.name,
                               !.new_drone = new_drone.drone_id,
                               !.success = update_result.r.success,
                               !.conflicts = validity_check.conflicts])

\* the loop over the high-priority missions: an exception of one call ends it
RECURSIVE RunAll(_, _, _, _, _, _, _)
RunAll(s, todo, ps, ds, ms, sheet_ok, results) ==
    IF todo = <<>> THEN [s |-> s, raised |-> "none", results |-> results]
    ELSE \* the call is made once and its outcome o is used in what follows
         CHOOSE run \in
            {IF o.r.raised # "none"
             THEN [s |-> o.s, raised |-> o.r.raised, results |-> results]
             ELSE RunAll(o.s, Tail(todo), ps, ds, ms, sheet_ok, Append(results, o.r)) :
             o \in {handle_urgent_mission(s, Head(todo).project_id, ps, ds, ms, sheet_ok)}} :
            TRUE

\* len([r for r in results if r.get("status") == status])
CountStatus(results, status) ==
    Cardinality({i \in 1..Len(results) : results[i].status = status})

RECURSIVE HighPriority(_)
\* [m for m in missions if m.priority.lower() == "high"]
HighPriority(ms) ==
    IF ms = <<>> THEN <<>>
    ELSE (IF Lower(Head(ms).priority) = "high" THEN <<Head(ms)>> ELSE <<>>)
         \o HighPriority(Tail(ms))

\* the summary dict, carried with the fields of a result
Summary(total, results) ==
    [total_checked |-> total,
     reassigned |-> CountStatus(results, "REASSIGNED"),
     unassignable |-> CountStatus(results, "UNASSIGNABLE"),
     no_action |-> CountStatus(results, "NO_ACTION"),
     errors |-> CountStatus(results, "ERROR"),
     results |-> results]
    @@ [NoResult EXCEPT !.op = "urgent_all"]

handle_all_high_priority_missions(s, ps, ds, ms, sheet_ok) ==
    LET high_priority_missions == HighPriority(ms)
    IN  IF high_priority_missions = <<>> THEN SvcOut(s, Summary(0, <<>>))
        ELSE CHOOSE out \in
                {IF run.raised # "none"
                 THEN SvcOut(run.s, Raise("urgent_all", run.raised, "-"))
                 ELSE SvcOut(run.s, Summary(Len(high_priority_missions), run.results)) :
                 run \in {RunAll(s, high_priority_missions, ps, ds, ms, sheet_ok, <<>>)}} :
                TRUE

----------------------------------------------------------------------------
(* agent/controller.py *)

\* what process_mission_assignment returns, and the manager it leaves
process_mission_assignment(a, h, mission, ps, ds, ms) ==
    LET best_assignment == find_best_assignment_for_mission(a, mission, ps, ds)
        pm(status) == [NoResult EXCEPT !.op = "process", !.status = status,
                                       !.mission_id = mission.project_id]
    IN
    IF best_assignment.raised # "none"
    THEN AMOut(a, h, Raise("process", best_assignment.raised, mission.project_id))
    ELSE IF best_assignment.found
    THEN LET o == assign_mission(a, h, mission, best_assignment.pilot, best_assignment.drone)
         IN  IF o.r.success
             THEN AMOut(o.a, o.h, [pm("ASSIGNED") EXCEPT !.success = TRUE,
                                        !.new_pilot = best_assignment.pilot.name,
                                        !.new_drone = best_assignment.drone.drone_id])
             ELSE AMOut(o.a, o.h, [pm("FAILED") EXCEPT !.reason = o.r.reason])
    ELSE LET conflicts == generate_conflict_report(mission, ps, ds, ms)
         IN  IF conflicts.raised # "none"
             THEN AMOut(a, h, Raise("process", conflicts.raised, mission.project_id))
             ELSE AMOut(a, h, [pm("UNASSIGNABLE") EXCEPT !.report = conflicts.rep])

\* the "recommendations" list of the dict the Controller returns
get_assignment_recommendations(a, mission, ps, ds, top_n) ==
    LET available_pilots == get_available_pilots(a, mission, ps)
        available_drones == get_available_drones(a, mission, ds)
        \* rank_assignments(mission, available_pilots, available_drones, top_n):
        \* the fourth positional parameter is assigned_pilots
        recommendations == rank_assignments(mission, available_pilots, available_drones,
                                            IntArg(top_n), EmptyDict, DefaultTopN)
    IN  IF available_pilots = <<>> \/ available_drones = <<>> THEN Ret(<<>>)
        ELSE IF recommendations.raised # "none" THEN Exc(recommendations.raised)
        ELSE Ret([idx \in 1..Len(recommendations.list) |->
                    [rank |-> idx,
                     pilot |-> recommendations.list[idx].pilot.name,
                     drone |-> recommendations.list[idx].drone.drone_id,
                     cost |-> 0,
                     combined_score_x2 |-> recommendations.list[idx].combined_score_x2]])

----------------------------------------------------------------------------
(* Initial state: the rows of the sheet, nothing assigned *)

InitSheetPilots == [n \in PilotNames |-> Pilot(n, "Available", "")]
InitSheetDrones == [i \in DroneIds |-> Drone(i, "Available", "")]
InitSheetMissions == [i \in MissionIds |-> Mission(i, "Unassigned", NoName, NoName)]

Init ==
    /\ sheetPilots = InitSheetPilots
    /\ sheetDrones = InitSheetDrones
    /\ sheetMissions = InitSheetMissions
    /\ pilots = ListOf(PilotOrder, InitSheetPilots)
    /\ drones = ListOf(DroneOrder, InitSheetDrones)
    /\ missions = ListOf(MissionOrder, InitSheetMissions)
    /\ assignments = <<>>
    /\ assignment_history = <<>>
    /\ svc_assignments = <<>>
    /\ svc_history = <<>>
    /\ reassignment_log = <<>>
    /\ result = NoResult

----------------------------------------------------------------------------
(* Calls on the Controller's AssignmentManager *)

AssignMission(mid, pilot, drone) ==
    /\ \E o \in {assign_mission(assignments, assignment_history,
                               sheetMissions[mid], pilot, drone)} :
           /\ Len(o.h) <= MaxHistory
           /\ assignments' = o.a
           /\ assignment_history' = o.h
           /\ result' = o.r
    /\ UNCHANGED <<sheetVars, ctlData, svcVars>>

UnassignMission(mid) ==
    /\ \E o \in {unassign_mission(assignments, assignment_history, mid)} :
           /\ Len(o.h) <= MaxHistory
           /\ assignments' = o.a
           /\ assignment_history' = o.h
           /\ result' = o.r
    /\ UNCHANGED <<sheetVars, ctlData, svcVars>>

ReassignMission(mid, pilot, drone) ==
    /\ \E o \in {reassign_mission(assignments, assignment_history,
                                 sheetMissions[mid], pilot, drone)} :
           /\ Len(o.h) <= MaxHistory
           /\ assignments' = o.a
           /\ assignment_history' = o.h
           /\ result' = o.r
    /\ UNCHANGED <<sheetVars, ctlData, svcVars>>

\* the missions the direct calls are made for (m1 and m2 overlap on day 2)
CallMissionIds == {"m1", "m2"}

NextAM ==
    \/ \E mid \in CallMissionIds, p \in AllPilots, d \in AllDrones : AssignMission(mid, p, d)
    \/ \E mid \in CallMissionIds : UnassignMission(mid)
    \/ \E mid \in CallMissionIds, p \in AllPilots, d \in AllDrones : ReassignMission(mid, p, d)

SpecAM == Init /\ [][NextAM]_vars

----------------------------------------------------------------------------
(* The system: the Controller, its urgent reassignment service, the sheet *)

\* Controller.process_mission_assignment on the i-th mission of self.missions
ProcessMissionAssignment(i) ==
    /\ \E o \in {process_mission_assignment(assignments, assignment_history,
                                           missions[i], pilots, drones, missions)} :
           /\ Len(o.h) <= MaxHistory
           /\ assignments' = o.a
           /\ assignment_history' = o.h
           /\ result' = o.r
    /\ UNCHANGED <<sheetVars, ctlData, svcVars>>

\* Controller.handle_urgent_reassignment: refresh_data, the service, refresh_data
HandleUrgentReassignment(mission_id, sheet_ok) ==
    /\ \E o \in {handle_urgent_mission(
                    SvcState(svc_assignments, svc_history, reassignment_log,
                             sheetPilots, sheetDrones, sheetMissions),
                    mission_id,
                    ListOf(PilotOrder, sheetPilots), ListOf(DroneOrder, sheetDrones),
                    ListOf(MissionOrder, sheetMissions), sheet_ok)} :
           /\ Len(o.s.log) <= MaxLog
           /\ Len(o.s.h) <= MaxHistory
           /\ svc_assignments' = o.s.a
           /\ svc_history' = o.s.h
           /\ reassignment_log' = o.s.log
           /\ sheetPilots' = o.s.sp
           /\ sheetDrones' = o.s.sd
           /\ sheetMissions' = o.s.sm
           /\ pilots' = ListOf(PilotOrder, o.s.sp)
           /\ drones' = ListOf(DroneOrder, o.s.sd)
           /\ missions' = ListOf(MissionOrder, o.s.sm)
           /\ result' = o.r
    /\ UNCHANGED ctlManager

\* Controller.handle_all_urgent_reassignments: refresh_data, the service,
\* refresh_data (not reached when the service raises)
HandleAllUrgentReassignments(sheet_ok) ==
    /\ \E o \in {handle_all_high_priority_missions(
                    SvcState(svc_assignments, svc_history, reassignment_log,
                             sheetPilots, sheetDrones, sheetMissions),
                    ListOf(PilotOrder, sheetPilots), ListOf(DroneOrder, sheetDrones),
                    ListOf(MissionOrder, sheetMissions), sheet_ok)} :
           /\ Len(o.s.log) <= MaxLog
           /\ Len(o.s.h) <= MaxHistory
           /\ svc_assignments' = o.s.a
           /\ svc_history' = o.s.h
           /\ reassignment_log' = o.s.log
           /\ sheetPilots' = o.s.sp
           /\ sheetDrones' = o.s.sd
           /\ sheetMissions' = o.s.sm
           /\ pilots' = ListOf(PilotOrder, IF o.r.raised = "none" THEN o.s.sp ELSE sheetPilots)
           /\ drones' = ListOf(DroneOrder, IF o.r.raised = "none" THEN o.s.sd ELSE sheetDrones)
           /\ missions' = ListOf(MissionOrder, IF o.r.raised = "none" THEN o.s.sm ELSE sheetMissions)
           /\ result' = o.r
    /\ UNCHANGED ctlManager

\* SheetsService.update_pilot_status_detail, called by the write endpoints
UpdatePilotStatus(name, new_status) ==
    /\ sheetPilots[name].status # new_status
    /\ sheetPilots' = [sheetPilots EXCEPT ![name].status = new_status]
    /\ UNCHANGED <<sheetDrones, sheetMissions, ctlData, ctlManager, svcVars, result>>

\* SheetsService.update_drone_status_detail
UpdateDroneStatus(drone_id, new_status) ==
    /\ sheetDrones[drone_id].status # new_status
    /\ sheetDrones' = [sheetDrones EXCEPT ![drone_id].status = new_status]
    /\ UNCHANGED <<sheetPilots, sheetMissions, ctlData, ctlManager, svcVars, result>>

\* SheetsService.assign_mission_detail, called by the write endpoints
SheetAssignMission(mid, pilot_name, drone_id) ==
    /\ \E w \in {SheetAssigned(sheetPilots, sheetDrones, sheetMissions, mid, pilot_name, drone_id)} :
           /\ sheetMissions[mid] # w.sm[mid]
           /\ sheetPilots' = w.sp
           /\ sheetDrones' = w.sd
           /\ sheetMissions' = w.sm
    /\ UNCHANGED <<ctlData, ctlManager, svcVars, result>>

\* what the write endpoints are called with
EditPilots == {"p1", "p2"}
EditDrones == {"d1"}
EditMissions == {"m1"}
EditAssignees == {<<"p1", "d1">>, <<Ghost, "d1">>}

\* the urgent reassignment service and the sheet it reads and writes
NextUrgent ==
    \/ \E mid \in MissionIds \cup {Ghost}, ok \in BOOLEAN : HandleUrgentReassignment(mid, ok)
    \/ \E n \in EditPilots, st \in PilotStatuses : UpdatePilotStatus(n, st)
    \/ \E i \in EditDrones, st \in DroneStatuses : UpdateDroneStatus(i, st)
    \/ \E mid \in EditMissions, pd \in EditAssignees : SheetAssignMission(mid, pd[1], pd[2])

SpecUrgent == Init /\ [][NextUrgent]_vars

\* the Controller: general assignment and urgent reassignment
NextSystem ==
    \/ \E i \in 1..Len(MissionOrder) : ProcessMissionAssignment(i)
    \/ \E mid \in MissionIds, ok \in BOOLEAN : HandleUrgentReassignment(mid, ok)
    \/ \E mid \in EditMissions : SheetAssignMission(mid, Ghost, Ghost)

SpecSystem == Init /\ [][NextSystem]_vars

\* the priorities the three mission rows of the sheet carry: every spelling
\* of High, Urgent and a lower priority in every position
PriorityRows ==
    {<<"High", "High", "Medium">>, <<"HIGH", "Urgent", "high">>,
     <<"Urgent", "High", "HIGH">>, <<"Medium", "HIGH", "Urgent">>}

RowOf(i) == IF i = "m1" THEN 1 ELSE IF i = "m2" THEN 2 ELSE 3

\* the rows of the sheet with any priorities, nothing assigned
InitBatch ==
    /\ sheetPilots = InitSheetPilots
    /\ sheetDrones = InitSheetDrones
    /\ sheetMissions \in
          {[i \in MissionIds |->
               [Mission(i, "Unassigned", NoName, NoName) EXCEPT !.priority = pr[RowOf(i)]]] :
           pr \in PriorityRows}
    /\ pilots = ListOf(PilotOrder, sheetPilots)
    /\ drones = ListOf(DroneOrder, sheetDrones)
    /\ missions = ListOf(MissionOrder, sheetMissions)
    /\ assignments = <<>>
    /\ assignment_history = <<>>
    /\ svc_assignments = <<>>
    /\ svc_history = <<>>
    /\ reassignment_log = <<>>
    /\ result = NoResult

BatchEditPilots == {"p1"}
BatchEditMissions == {"m1"}
BatchEditAssignees == {<<"p1", "d1">>, <<Ghost, "d1">>}

\* the scan over all high-priority missions, the single repair, the sheet edits
NextBatch ==
    \/ \E ok \in BOOLEAN : HandleAllUrgentReassignments(ok)
    \/ \E mid \in MissionIds, ok \in BOOLEAN : HandleUrgentReassignment(mid, ok)
    \/ \E n \in BatchEditPilots, st \in PilotStatuses : UpdatePilotStatus(n, st)
    \/ \E mid \in BatchEditMissions, pd \in BatchEditAssignees :
          SheetAssignMission(mid, pd[1], pd[2])

SpecBatch == InitBatch /\ [][NextBatch]_vars

----------------------------------------------------------------------------
(* The conflict checks of the Controller on any pilot, drone and mission *)

\* the pilots, drones and missions the checks are made for
PilotVariants ==
    {[Pilot(n, st, "") EXCEPT !.skills = sk, !.daily_rate_inr = r] :
        n \in PilotNames, st \in {"Available", "On Leave", "Unavailable"},
        sk \in {{"thermal"}, {}}, r \in {1, 5}}

DroneVariants ==
    {[Drone("d1", st, "") EXCEPT !.maintenance_due = md] :
        st \in {"Available", "Maintenance", "Deployed"}, md \in {0, 5}}

MissionVariants ==
    {[Mission("m1", "Unassigned", NoName, NoName)
         EXCEPT !.mission_budget_inr = b, !.required_certs = rc] :
        b \in {0, 8}, rc \in {{"dgca"}, {"dgca", "night"}}}

\* Controller.missions after the checked mission: none, one overlapping it
\* (assigned to nobody, or to p1 and d1), or the mission itself with an
\* overlapping and a disjoint one
SiblingLists ==
    {<<>>,
     <<Mission("m2", "Unassigned", NoName, NoName)>>,
     <<Mission("m2", "Assigned", "p1", "d1")>>,
     <<Mission("m1", "Unassigned", NoName, NoName),
       Mission("m2", "Unassigned", NoName, NoName),
       Mission("m3", "Unassigned", NoName, NoName)>>}

InitChecks ==
    /\ sheetPilots = InitSheetPilots
    /\ sheetDrones = InitSheetDrones
    /\ sheetMissions = InitSheetMissions
    /\ pilots \in {<<p>> : p \in PilotVariants}
    /\ drones \in {<<d>> : d \in DroneVariants}
    /\ missions \in {<<m>> \o sib : m \in MissionVariants, sib \in SiblingLists}
    /\ assignments = <<>>
    /\ assignment_history = <<>>
    /\ svc_assignments = <<>>
    /\ svc_history = <<>>
    /\ reassignment_log = <<>>
    /\ result = NoResult

\* Controller.analyze_pilot_conflicts(pilot, mission)
AnalyzePilotConflicts ==
    /\ \E o \in {check_pilot_assignment(pilots[1], missions[1], missions)} :
           result' = [NoResult EXCEPT !.op = "check_pilot", !.raised = o.raised,
                                      !.conflicts = o.list]
    /\ UNCHANGED <<sheetVars, ctlData, ctlManager, svcVars>>

\* Controller.analyze_drone_conflicts(drone, mission)
AnalyzeDroneConflicts ==
    /\ \E o \in {check_drone_assignment(drones[1], missions[1], missions)} :
           result' = [NoResult EXCEPT !.op = "check_drone", !.raised = o.raised,
                                      !.conflicts = o.list]
    /\ UNCHANGED <<sheetVars, ctlData, ctlManager, svcVars>>

\* Controller.analyze_mission_conflicts(mission)
AnalyzeMissionConflicts ==
    /\ \E o \in {generate_conflict_report(missions[1], pilots, drones, missions)} :
           result' = [NoResult EXCEPT !.op = "report", !.raised = o.raised,
                                      !.mission_id = missions[1].project_id,
                                      !.report = o.rep]
    /\ UNCHANGED <<sheetVars, ctlData, ctlManager, svcVars>>

NextChecks == AnalyzePilotConflicts \/ AnalyzeDroneConflicts \/ AnalyzeMissionConflicts

SpecChecks == InitChecks /\ [][NextChecks]_vars

----------------------------------------------------------------------------
(* Mission.overlaps_with on any two date ranges *)

\* a day of the calendar, or the date that failed to parse
Dates == NoDate..MaxDay

InitDates ==
    /\ sheetPilots = InitSheetPilots
    /\ sheetDrones = InitSheetDrones
    /\ sheetMissions = InitSheetMissions
    /\ pilots = ListOf(PilotOrder, InitSheetPilots)
    /\ drones = ListOf(DroneOrder, InitSheetDrones)
    /\ missions \in
          {<<[Mission("m1", "Unassigned", NoName, NoName)
                 EXCEPT !.start_date = s1, !.end_date = e1],
             [Mission("m2", "Unassigned", NoName, NoName)
                 EXCEPT !.start_date = s2, !.end_date = e2]>> :
           s1 \in Dates, e1 \in Dates, s2 \in Dates, e2 \in Dates}
    /\ assignments = <<>>
    /\ assignment_history = <<>>
    /\ svc_assignments = <<>>
    /\ svc_history = <<>>
    /\ reassignment_log = <<>>
    /\ result = NoResult

\* missions[i].overlaps_with(missions[j])
OverlapsWith(i, j) ==
    /\ result' = [NoResult EXCEPT !.op = "overlaps_with",
                                  !.mission_id = missions[i].project_id,
                                  !.success = dates_overlap(missions[i].start_date,
                                                            missions[i].end_date,
                                                            missions[j].start_date,
                                                            missions[j].end_date)]
    /\ UNCHANGED <<sheetVars, ctlData, ctlManager, svcVars>>

NextDates == \E i \in 1..2, j \in 1..2 : OverlapsWith(i, j)

SpecDates == InitDates /\ [][NextDates]_vars

----------------------------------------------------------------------------
(* DecisionEngine.find_best_assignment on any lists of pilots and drones *)

MatchPilots ==
    {[Pilot(n, st, "") EXCEPT !.daily_rate_inr = r] :
        n \in PilotNames, st \in PilotStatuses, r \in {1, 2, 5}}

MatchDrones ==
    {[Drone(i, st, "") EXCEPT !.location = loc] :
        i \in DroneIds, st \in DroneStatuses, loc \in {"Delhi", "Mumbai"}}

\* the lists of at most two elements of a set
UpToTwo(S) == {<<>>} \cup {<<x>> : x \in S} \cup {<<x, y>> : x \in S, y \in S}

InitMatching ==
    /\ sheetPilots = InitSheetPilots
    /\ sheetDrones = InitSheetDrones
    /\ sheetMissions = InitSheetMissions
    /\ pilots \in UpToTwo(MatchPilots)
    /\ drones \in UpToTwo(MatchDrones)
    /\ missions = <<Mission("m1", "Unassigned", NoName, NoName)>>
    /\ assignments = <<>>
    /\ assignment_history = <<>>
    /\ svc_assignments = <<>>
    /\ svc_history = <<>>
    /\ reassignment_log = <<>>
    /\ result = NoResult

\* decision_engine.find_best_assignment(mission, pilots, drones)
FindBestAssignment ==
    /\ \E b \in {find_best_assignment(missions[1], pilots, drones, EmptyDict, EmptyDict)} :
           result' = [best |-> b]
                     @@ [NoResult EXCEPT !.op = "find_best", !.raised = b.raised,
                                         !.success = b.found,
                                         !.mission_id = missions[1].project_id]
    /\ UNCHANGED <<sheetVars, ctlData, ctlManager, svcVars>>

NextMatching == FindBestAssignment

SpecMatching == InitMatching /\ [][NextMatching]_vars

----------------------------------------------------------------------------
(* DecisionEngine.match_pilots on any pilots and any assigned-pilots map *)

\* the assigned_pilots dict of the engine: pilot name -> the mission it holds
AssignedDict(at) == [kind |-> "dict", keys |-> DOMAIN at, at |-> at]

\* pilots with and without the skill and the certification, cheap and dear
PilotPool(n) ==
    {[Pilot(n, st, "") EXCEPT !.skills = sk, !.certifications = ce, !.daily_rate_inr = r] :
        st \in PilotStatuses, sk \in {{"thermal"}, {}}, ce \in {{"dgca"}, {}}, r \in {1, 5}}

\* the maps a caller passes: nothing held, p1 or p2 or both holding m2 or m3
AssignedPilotMaps ==
    {EmptyDict}
    \cup {AssignedDict([n \in K |-> Mission(held, "Assigned", n, "d1")]) :
            K \in {{"p1"}, {"p2"}, {"p1", "p2"}}, held \in {"m2", "m3"}}

\* the mission matched: two days (m1, overlapping m2) or the single day of m3
InitMatchPilots ==
    /\ sheetPilots = InitSheetPilots
    /\ sheetDrones = InitSheetDrones
    /\ sheetMissions = InitSheetMissions
    /\ pilots \in {<<a, b>> : a \in PilotPool("p1"), b \in PilotPool("p2")}
    /\ drones = ListOf(DroneOrder, InitSheetDrones)
    /\ missions \in {<<Mission(i, "Unassigned", NoName, NoName)>> : i \in {"m1", "m3"}}
    /\ assignments = <<>>
    /\ assignment_history = <<>>
    /\ svc_assignments = <<>>
    /\ svc_history = <<>>
    /\ reassignment_log = <<>>
    /\ result = NoResult

\* decision_engine.match_pilots(mission, pilots, assigned_pilots); the result
\* keeps the map the call was made with
MatchPilotsCall(assigned_pilots) ==
    /\ \E o \in {match_pilots(missions[1], pilots, assigned_pilots)} :
           result' = [matched |-> o.list, assigned |-> assigned_pilots]
                     @@ [NoResult EXCEPT !.op = "match_pilots", !.raised = o.raised,
                                         !.mission_id = missions[1].project_id]
    /\ UNCHANGED <<sheetVars, ctlData, ctlManager, svcVars>>

NextMatchPilots == \E assigned_pilots \in AssignedPilotMaps : MatchPilotsCall(assigned_pilots)

SpecMatchPilots == InitMatchPilots /\ [][NextMatchPilots]_vars

----------------------------------------------------------------------------
(* DecisionEngine.match_drones on any drones and any assigned-drones map *)

\* drones with and without outstanding maintenance hours, here and elsewhere
DronePool(i) ==
    {[Drone(i, st, "") EXCEPT !.maintenance_due = md, !.location = loc] :
        st \in DroneStatuses, md \in {0, 5}, loc \in {"Delhi", "Mumbai"}}

\* the maps a caller passes: nothing held, d1 or d2 or both holding m2 or m3
AssignedDroneMaps ==
    {EmptyDict}
    \cup {AssignedDict([i \in K |-> Mission(held, "Assigned", "p1", i)]) :
            K \in {{"d1"}, {"d2"}, {"d1", "d2"}}, held \in {"m2", "m3"}}

InitMatchDrones ==
    /\ sheetPilots = InitSheetPilots
    /\ sheetDrones = InitSheetDrones
    /\ sheetMissions = InitSheetMissions
    /\ pilots = ListOf(PilotOrder, InitSheetPilots)
    /\ drones \in {<<a, b>> : a \in DronePool("d1"), b \in DronePool("d2")}
    /\ missions \in {<<Mission(i, "Unassigned", NoName, NoName)>> : i \in {"m1", "m3"}}
    /\ assignments = <<>>
    /\ assignment_history = <<>>
    /\ svc_assignments = <<>>
    /\ svc_history = <<>>
    /\ reassignment_log = <<>>
    /\ result = NoResult

\* decision_engine.match_drones(mission, drones, assigned_drones); the result
\* keeps the map the call was made with
MatchDronesCall(assigned_drones) ==
    /\ \E o \in {match_drones(missions[1], drones, assigned_drones)} :
           result' = [matched |-> o.list, assigned |-> assigned_drones]
                     @@ [NoResult EXCEPT !.op = "match_drones", !.raised = o.raised,
                                         !.mission_id = missions[1].project_id]
    /\ UNCHANGED <<sheetVars, ctlData, ctlManager, svcVars>>

NextMatchDrones == \E assigned_drones \in AssignedDroneMaps : MatchDronesCall(assigned_drones)

SpecMatchDrones == InitMatchDrones /\ [][NextMatchDrones]_vars

----------------------------------------------------------------------------
(* DecisionEngine.rank_assignments, called directly and by the Controller *)

MaxTopN == 5         \* largest top_n requested

InitRank ==
    /\ sheetPilots = InitSheetPilots
    /\ sheetDrones = InitSheetDrones
    /\ sheetMissions = InitSheetMissions
    /\ pilots \in {<<a, b>> : a \in {p \in MatchPilots : p.name = "p1"},
                             b \in {p \in MatchPilots : p.name = "p2"}}
    /\ drones \in {<<a, b>> : a \in {d \in MatchDrones : d.drone_id = "d1"},
                             b \in {d \in MatchDrones : d.drone_id = "d2"}}
    /\ missions = <<Mission("m1", "Unassigned", NoName, NoName)>>
    /\ assignments = <<>>
    /\ assignment_history = <<>>
    /\ svc_assignments = <<>>
    /\ svc_history = <<>>
    /\ reassignment_log = <<>>
    /\ result = NoResult

\* decision_engine.rank_assignments(mission, pilots, drones, top_n=top_n)
RankAssignments(top_n) ==
    /\ \E o \in {rank_assignments(missions[1], pilots, drones, EmptyDict, EmptyDict, top_n)} :
           result' = [ranked |-> [k \in 1..Len(o.list) |->
                                    [pilot |-> o.list[k].pilot.name,
                                     drone |-> o.list[k].drone.drone_id,
                                     combined_score_x2 |-> o.list[k].combined_score_x2]],
                      top_n |-> top_n]
                     @@ [NoResult EXCEPT !.op = "rank", !.raised = o.raised,
                                         !.mission_id = missions[1].project_id]
    /\ UNCHANGED <<sheetVars, ctlData, ctlManager, svcVars>>

\* Controller.get_assignment_recommendations(mission, top_n)
GetAssignmentRecommendations(top_n) ==
    /\ \E o \in {get_assignment_recommendations(assignments, missions[1], pilots, drones, top_n)} :
           result' = [ranked |-> [k \in 1..Len(o.list) |->
                                    [pilot |-> o.list[k].pilot,
                                     drone |-> o.list[k].drone,
                                     combined_score_x2 |-> o.list[k].combined_score_x2]],
                      top_n |-> top_n]
                     @@ [NoResult EXCEPT !.op = "recommend", !.raised = o.raised,
                                         !.mission_id = missions[1].project_id]
    /\ UNCHANGED <<sheetVars, ctlData, ctlManager, svcVars>>

NextRank ==
    \/ \E top_n \in 0..MaxTopN : RankAssignments(top_n)
    \/ \E top_n \in 0..MaxTopN : GetAssignmentRecommendations(top_n)

SpecRank == InitRank /\ [][NextRank]_vars

----------------------------------------------------------------------------
(* Harness for the repair of assigned missions: the sheet holds missions   *)
(* m1 and m2 (both High, overlapping on day 2) in any status of the        *)
(* lifecycle after Unassigned, recorded with drone d1 and either pilot p1  *)
(* or a pilot that is in no pilot row.                                     *)

\* models/mission.py: the statuses a mission row carries once it is assigned
RepairStatuses == {"Assigned", "InProgress", "Completed"}
RepairMissions == {"m1", "m2"}
RepairPilots == {"p1", Ghost}

InitRepair ==
    /\ sheetPilots = InitSheetPilots
    /\ sheetDrones = InitSheetDrones
    /\ sheetMissions \in
          {[i \in MissionIds |->
               IF i \in RepairMissions THEN Mission(i, st[i], ap[i], "d1")
               ELSE Mission(i, "Unassigned", NoName, NoName)] :
           st \in [RepairMissions -> RepairStatuses],
           ap \in [RepairMissions -> RepairPilots]}
    /\ pilots = ListOf(PilotOrder, sheetPilots)
    /\ drones = ListOf(DroneOrder, sheetDrones)
    /\ missions = ListOf(MissionOrder, sheetMissions)
    /\ assignments = <<>>
    /\ assignment_history = <<>>
    /\ svc_assignments = <<>>
    /\ svc_history = <<>>
    /\ reassignment_log = <<>>
    /\ result = NoResult

\* the urgent reassignment of any mission, and the write endpoint recording
\* a pilot that is in no pilot row
NextRepair ==
    \/ \E mid \in MissionIds, ok \in BOOLEAN : HandleUrgentReassignment(mid, ok)
    \/ \E mid \in RepairMissions : SheetAssignMission(mid, Ghost, "d1")

SpecRepair == InitRepair /\ [][NextRepair]_vars

----------------------------------------------------------------------------
(* Harness for Controller.process_mission_assignment: the Controller has   *)
(* loaded either all three mission rows or only m1 and m3 (which share no  *)
(* day), with pilots and drones in any status, and processes its missions  *)
(* one call after the other, any mission any number of times.              *)

\* the mission rows the sheet holds when the Controller loads it
LoadedRows == {<<"m1", "m2", "m3">>, <<"m1", "m3">>}

RECURSIVE RangeOf(_)
RangeOf(list) == IF list = <<>> THEN {} ELSE {Head(list)} \cup RangeOf(Tail(list))

InitProcess ==
    /\ sheetPilots \in {[n \in PilotNames |-> Pilot(n, st[n], "")] :
                        st \in [PilotNames -> PilotStatuses]}
    /\ sheetDrones \in {[i \in DroneIds |-> Drone(i, st[i], "")] :
                        st \in [DroneIds -> DroneStatuses]}
    /\ \E rows \in LoadedRows :
          /\ sheetMissions = [i \in RangeOf(rows) |-> Mission(i, "Unassigned", NoName, NoName)]
          /\ missions = ListOf(rows, sheetMissions)
    /\ pilots = ListOf(PilotOrder, sheetPilots)
    /\ drones = ListOf(DroneOrder, sheetDrones)
    /\ assignments = <<>>
    /\ assignment_history = <<>>
    /\ svc_assignments = <<>>
    /\ svc_history = <<>>
    /\ reassignment_log = <<>>
    /\ result = NoResult

NextProcess == \E i \in 1..Len(missions) : ProcessMissionAssignment(i)

SpecProcess == InitProcess /\ [][NextProcess]_vars

----------------------------------------------------------------------------
(* Properties *)
(* The operators of this section state what the claims expect; they are  *)
(* written from the claims and are what the program operators above are  *)
(* compared with.                                                        *)

Live(a) == {k \in DOMAIN a : a[k].live}

Overlap(m1, m2) ==
    dates_overlap(m1.start_date, m1.end_date, m2.start_date, m2.end_date)

IsLive(a, mid) == mid \in DOMAIN a /\ a[mid].live

\* C1: no two live assignments of different missions name the same pilot name
\* or the same drone id with overlapping inclusive date ranges, also when a
\* later call passes a refreshed snapshot of the same pilot or drone.
C1_NoDoubleBooking ==
    \A k1 \in Live(assignments), k2 \in Live(assignments) :
        (k1 # k2 /\ Overlap(assignments[k1].mission, assignments[k2].mission))
            => /\ assignments[k1].pilot.name # assignments[k2].pilot.name
               /\ assignments[k1].drone.drone_id # assignments[k2].drone.drone_id

PilotHolds(a, pilot_name, mission) ==
    \E k \in Live(a) : a[k].pilot.name = pilot_name /\ Overlap(mission, a[k].mission)

DroneHolds(a, drone_id, mission) ==
    \E k \in Live(a) : a[k].drone.drone_id = drone_id /\ Overlap(mission, a[k].mission)

\* C2: assign_mission called when the pilot or the drone already holds a live
\* mission overlapping the mission's dates returns success = False with the
\* reason naming the conflicting side (pilot before drone) and changes neither
\* the live map nor the history.
C2_ConflictingAssignFails ==
    [][\A mid \in CallMissionIds, p \in AllPilots, d \in AllDrones :
        (/\ AssignMission(mid, p, d)
         /\ \/ PilotHolds(assignments, p.name, sheetMissions[mid])
            \/ DroneHolds(assignments, d.drone_id, sheetMissions[mid]))
        => /\ result'.raised = "none"
           /\ result'.success = FALSE
           /\ result'.reason = (IF PilotHolds(assignments, p.name, sheetMissions[mid])
                                THEN "Pilot schedule conflict"
                                ELSE "Drone schedule conflict")
           /\ UNCHANGED ctlManager]_vars

\* C3: whenever the live assignment stored for a mission is replaced by a
\* different pilot/drone pair, the step first retires the old one: the history
\* gets an UNASSIGN entry for the mission before the ASSIGN entry of the new pair.
C3_NoSilentOverwrite ==
    [][\A mid \in MissionIds :
        (/\ IsLive(assignments, mid)
         /\ IsLive(assignments', mid)
         /\ <<assignments[mid].pilot.name, assignments[mid].drone.drone_id>>
              # <<assignments'[mid].pilot.name, assignments'[mid].drone.drone_id>>)
        => \E i \in (Len(assignment_history) + 1)..(Len(assignment_history') - 1) :
              /\ assignment_history'[i].action = "UNASSIGN"
              /\ assignment_history'[i].mission_id = mid
              /\ assignment_history'[Len(assignment_history')].action = "ASSIGN"
              /\ assignment_history'[Len(assignment_history')].mission_id = mid]_vars

\* C4: unassign_mission on a mission without a live assignment (never assigned,
\* or assigned and already unassigned) returns the failure 'Mission not
\* assigned' without raising and changes nothing; on a mission with a live
\* assignment it clears the slot and appends exactly one UNASSIGN entry naming
\* the removed pilot and drone.
C4_UnassignContract ==
    [][\A mid \in CallMissionIds :
        UnassignMission(mid) =>
            IF IsLive(assignments, mid)
            THEN /\ result'.raised = "none"
                 /\ result'.success
                 /\ assignments'[mid] = NoneSlot
                 /\ assignment_history' =
                        Append(assignment_history,
                               HistoryEntry("UNASSIGN", mid, assignments[mid].pilot.name,
                                            assignments[mid].drone.drone_id))
            ELSE /\ result'.raised = "none"
                 /\ result'.success = FALSE
                 /\ result'.reason = "Mission not assigned"
                 /\ UNCHANGED ctlManager]_vars

\* C5: reassign_mission of a mission to exactly the pilot and drone records it
\* already holds does not raise, returns success, leaves the mission's live
\* assignment with the same pilot and drone, and appends exactly two history
\* entries, an UNASSIGN followed by an ASSIGN.
C5_NoOpReassign ==
    [][\A mid \in CallMissionIds, p \in AllPilots, d \in AllDrones :
        (/\ ReassignMission(mid, p, d)
         /\ IsLive(assignments, mid)
         /\ assignments[mid].pilot = p
         /\ assignments[mid].drone = d)
        => /\ result'.raised = "none"
           /\ result'.success
           /\ IsLive(assignments', mid)
           /\ assignments'[mid].pilot = p
           /\ assignments'[mid].drone = d
           /\ assignment_history' =
                 assignment_history
                 \o <<HistoryEntry("UNASSIGN", mid, p.name, d.drone_id),
                      HistoryEntry("ASSIGN", mid, p.name, d.drone_id)>>]_vars

\* a no-op reassign has acted: the history ends ASSIGN, UNASSIGN, ASSIGN of one
\* mission with one pilot and one drone, and the mission is live with them
C5_Witness ==
    LET n == Len(assignment_history)
    IN  /\ result.op = "reassign"
        /\ result.success
        /\ n >= 3
        /\ assignment_history[n - 2].action = "ASSIGN"
        /\ assignment_history[n - 1] = [assignment_history[n - 2] EXCEPT !.action = "UNASSIGN"]
        /\ assignment_history[n] = assignment_history[n - 2]
        /\ IsLive(assignments, result.mission_id)
        /\ assignments[result.mission_id].pilot.name = assignment_history[n].pilot
        /\ assignments[result.mission_id].drone.drone_id = assignment_history[n].drone

\* C6: urgent reassignment never gives a mission a pilot or a drone that the
\* Controller's assignment manager records as holding another mission with an
\* overlapping date range.
C6_SingleSourceOfTruth ==
    \A k \in Live(svc_assignments), j \in Live(assignments) :
        (k # j /\ Overlap(svc_assignments[k].mission, assignments[j].mission))
            => /\ svc_assignments[k].pilot.name # assignments[j].pilot.name
               /\ svc_assignments[k].drone.drone_id # assignments[j].drone.drone_id

\* the lists the Controller hands to the service after refresh_data
FreshPilots == ListOf(PilotOrder, sheetPilots)
FreshDrones == ListOf(DroneOrder, sheetDrones)
FreshMissions == ListOf(MissionOrder, sheetMissions)

RECURSIVE Without(_, _, _)
Without(list, field, value) ==
    IF list = <<>> THEN <<>>
    ELSE (IF Head(list)[field] = value THEN <<>> ELSE <<Head(list)>>)
         \o Without(Tail(list), field, value)

\* a High-priority mission in status Assigned whose recorded pilot is no longer
\* Available, while another pilot and a drone pass all matching constraints
ScenarioD(mid) ==
    /\ mid \in MissionIds
    /\ sheetMissions[mid].priority = "High"
    /\ sheetMissions[mid].status = "Assigned"
    /\ sheetMissions[mid].assigned_pilot \in PilotNames
    /\ sheetMissions[mid].assigned_drone \in DroneIds
    /\ sheetPilots[sheetMissions[mid].assigned_pilot].status # "Available"
    /\ find_best_assignment(sheetMissions[mid],
            Without(get_available_pilots(svc_assignments, sheetMissions[mid], FreshPilots),
                    "name", sheetMissions[mid].assigned_pilot),
            get_available_drones(svc_assignments, sheetMissions[mid], FreshDrones),
            EmptyDict, EmptyDict).found

\* C7: in scenario D handle_urgent_mission returns REASSIGNED and appends one
\* REASSIGNED entry carrying the previous and the new pilot identity.
C7_ScenarioDReassigns ==
    [][\A mid \in MissionIds, ok \in BOOLEAN :
        (HandleUrgentReassignment(mid, ok) /\ ScenarioD(mid))
        => /\ result'.status = "REASSIGNED"
           /\ reassignment_log' = Append(reassignment_log, result')
           /\ result'.previous_pilot = sheetMissions[mid].assigned_pilot
           /\ result'.new_pilot \in PilotNames \ {sheetMissions[mid].assigned_pilot}]_vars

\* the current assignment of a high or urgent mission is found invalid
FoundInvalid(mid) ==
    /\ mid \in MissionIds
    /\ Lower(sheetMissions[mid].priority) \in {"high", "urgent"}
    /\ check_mission_validity(sheetMissions[mid], FreshPilots, FreshDrones).raised = "none"
    /\ ~check_mission_validity(sheetMissions[mid], FreshPilots, FreshDrones).valid

NoReplacement(mid) ==
    ~find_best_assignment(sheetMissions[mid],
            get_available_pilots(svc_assignments, sheetMissions[mid], FreshPilots),
            get_available_drones(svc_assignments, sheetMissions[mid], FreshDrones),
            EmptyDict, EmptyDict).found

\* C8: when the current assignment is found invalid and no replacement candidate
\* exists, handle_urgent_mission returns UNASSIGNABLE with the conflicts that
\* triggered the repair, appends one UNASSIGNABLE log entry, and changes neither
\* its assignment manager nor the sheet.
C8_UnassignableIsSideEffectFree ==
    [][\A mid \in MissionIds, ok \in BOOLEAN :
        (HandleUrgentReassignment(mid, ok) /\ FoundInvalid(mid) /\ NoReplacement(mid))
        => /\ result'.status = "UNASSIGNABLE"
           /\ result'.conflicts =
                 check_mission_validity(sheetMissions[mid], FreshPilots, FreshDrones).conflicts
           /\ reassignment_log' = Append(reassignment_log, result')
           /\ UNCHANGED <<svc_assignments, svc_history, sheetVars>>]_vars

\* C9: every call of handle_urgent_mission appends exactly one entry for the
\* processed mission to the reassignment log, whatever the outcome is.
C9_OneLogEntryPerCall ==
    [][\A mid \in MissionIds \cup {Ghost}, ok \in BOOLEAN :
        HandleUrgentReassignment(mid, ok)
        => /\ Len(reassignment_log') = Len(reassignment_log) + 1
           /\ reassignment_log'[Len(reassignment_log')].mission_id = mid]_vars

\* C10: no exception leaves handle_urgent_mission once the assignment was found
\* invalid: a fault becomes an ERROR result appended to the reassignment log.
C10_FaultContainment ==
    [][\A mid \in MissionIds, ok \in BOOLEAN :
        (HandleUrgentReassignment(mid, ok) /\ FoundInvalid(mid))
        => result'.raised = "none"]_vars

\* C11: handle_all_high_priority_missions processes exactly the missions whose
\* priority is High in any spelling (none of priority Urgent), runs through all
\* N of them whatever the single outcomes are, and returns total_checked = N,
\* one result per such mission in input order, and counts that add up to N.
C11_BatchCompleteness ==
    [][\A ok \in BOOLEAN :
        HandleAllUrgentReassignments(ok) =>
            LET high == HighPriority(FreshMissions)
            IN  /\ result'.raised = "none"
                /\ result'.total_checked = Len(high)
                /\ Len(result'.results) = Len(high)
                /\ \A i \in 1..Len(high) :
                      /\ result'.results[i].mission_id = high[i].project_id
                      /\ high[i].priority \notin {"Urgent", "URGENT", "urgent"}
                /\ result'.reassigned + result'.unassignable
                      + result'.no_action + result'.errors = result'.total_checked]_vars

\* the step committed a reassignment of mid in the service's manager
Committed(mid) ==
    /\ Len(svc_history') > Len(svc_history)
    /\ svc_history'[Len(svc_history')].action = "ASSIGN"
    /\ svc_history'[Len(svc_history')].mission_id = mid

SameSnapshotsAsLastCall(mid) ==
    /\ result.op = "urgent"
    /\ result.raised = "none"
    /\ result.mission_id = mid
    /\ <<pilots, drones, missions>> = <<FreshPilots, FreshDrones, FreshMissions>>
    /\ result.status = "REASSIGNED"
          => \/ sheetMissions[mid].assigned_pilot # result.new_pilot
             \/ sheetMissions[mid].assigned_drone # result.new_drone

\* C13: a second call of handle_urgent_mission with the same mission id and the
\* same pilot, drone and mission snapshots as the first leaves the service's
\* live assignment map as the first call left it and does not report a second
\* REASSIGNED to a different pilot/drone pair.
C13_IdempotentPerInvocation ==
    [][\A mid \in MissionIds, ok \in BOOLEAN :
        (SameSnapshotsAsLastCall(mid) /\ HandleUrgentReassignment(mid, ok))
        => /\ svc_assignments' = svc_assignments
           /\ ~(/\ result.status = "REASSIGNED"
                /\ result'.status = "REASSIGNED"
                /\ <<result'.new_pilot, result'.new_drone>>
                      # <<result.new_pilot, result.new_drone>>)]_vars

\* C14: handle_urgent_mission on a mission whose status is Unassigned returns
\* NO_ACTION, for every priority and every state of the pilots and drones, and
\* changes neither the service's assignment manager nor the sheet.
C14_UnassignedIsNoAction ==
    [][\A mid \in MissionIds, ok \in BOOLEAN :
        (sheetMissions[mid].status = "Unassigned" /\ HandleUrgentReassignment(mid, ok))
        => /\ result'.raised = "none"
           /\ result'.status = "NO_ACTION"
           /\ UNCHANGED <<svc_assignments, svc_history, sheetVars>>]_vars

\* NO_ACTION was returned for an Unassigned mission of priority Urgent while a
\* pilot is not Available
C14_Witness ==
    /\ result.op = "urgent"
    /\ result.status = "NO_ACTION"
    /\ result.mission_id \in MissionIds
    /\ sheetMissions[result.mission_id].status = "Unassigned"
    /\ sheetMissions[result.mission_id].priority = "Urgent"
    /\ <<pilots, drones, missions>> = <<FreshPilots, FreshDrones, FreshMissions>>
    /\ \E n \in PilotNames : sheetPilots[n].status # "Available"

\* exactly one conflict, of type AVAILABILITY and severity CRITICAL
OnlyAvailability(conflicts) ==
    /\ Len(conflicts) = 1
    /\ conflicts[1].type = "AVAILABILITY"
    /\ conflicts[1].severity = "CRITICAL"

\* C15: for a pilot whose status is not Available check_pilot_assignment
\* returns exactly one conflict, of type AVAILABILITY and severity CRITICAL,
\* whatever the mission's skills, certifications, budget, location and sibling
\* missions are; check_drone_assignment does the same for a drone whose status
\* is not Available.
C15_FailFastOnAvailability ==
    [][/\ (AnalyzePilotConflicts /\ pilots[1].status # "Available")
            => (result'.raised = "none" /\ OnlyAvailability(result'.conflicts))
       /\ (AnalyzeDroneConflicts /\ drones[1].status # "Available")
            => (result'.raised = "none" /\ OnlyAvailability(result'.conflicts))]_vars

\* the pilot check answered with the single availability conflict for a pilot
\* who also lacks the skill and the certification, in another city, on a
\* mission with budget 0 and an overlapping sibling
C15_Witness ==
    /\ result.op = "check_pilot"
    /\ OnlyAvailability(result.conflicts)
    /\ pilots[1].status # "Available"
    /\ ~(missions[1].required_skills \subseteq pilots[1].skills)
    /\ ~(missions[1].required_certs \subseteq pilots[1].certifications)
    /\ pilots[1].location # missions[1].location
    /\ missions[1].mission_budget_inr = 0
    /\ Len(missions) > 1

\* both dates parsed and the range is not reversed
ValidRange(m) ==
    m.start_date # NoDate /\ m.end_date # NoDate /\ m.start_date <= m.end_date

\* C16: for date ranges with start <= end, dates_overlap(start1, end1, start2,
\* end2) equals (start1 <= end2 and start2 <= end1): true for adjacent ranges
\* sharing one day, for identical and for nested ranges, false for disjoint
\* ranges, and symmetric in the two ranges.
C16_DatesOverlap ==
    [][\A i \in 1..2, j \in 1..2 :
        (OverlapsWith(i, j) /\ ValidRange(missions[i]) /\ ValidRange(missions[j]))
        => LET a == missions[i]
               b == missions[j]
           IN  /\ result'.success
                     = (a.start_date <= b.end_date /\ b.start_date <= a.end_date)
               /\ (a.end_date = b.start_date) => result'.success
               /\ (a.start_date = b.start_date /\ a.end_date = b.end_date)
                     => result'.success
               /\ (a.start_date <= b.start_date /\ b.end_date <= a.end_date)
                     => result'.success
               /\ (a.end_date < b.start_date \/ b.end_date < a.start_date)
                     => ~result'.success
               /\ result'.success
                     = dates_overlap(b.start_date, b.end_date,
                                     a.start_date, a.end_date)]_vars

\* two different ranges of more than one day that share exactly their
\* boundary day were found to overlap
C16_Witness ==
    /\ result.op = "overlaps_with"
    /\ result.mission_id = "m1"
    /\ result.success
    /\ Len(missions) = 2
    /\ ValidRange(missions[1])
    /\ ValidRange(missions[2])
    /\ missions[1].start_date < missions[1].end_date
    /\ missions[1].end_date = missions[2].start_date
    /\ missions[2].start_date < missions[2].end_date

\* the positions of the pilots that pass every filter of the matching
ValidPilotAt(mission, ps) ==
    {i \in 1..Len(ps) :
        /\ ps[i].status = "Available"
        /\ mission.required_skills \subseteq ps[i].skills
        /\ mission.required_certs \subseteq ps[i].certifications
        /\ ps[i].daily_rate_inr * DurationDays(mission) <= mission.mission_budget_inr}

ValidDroneAt(mission, ds) == {i \in 1..Len(ds) : ds[i].status = "Available"}

CostOf(mission, pilot) == pilot.daily_rate_inr * DurationDays(mission)

\* C17: find_best_assignment returns None when no pilot or no drone is valid;
\* otherwise it returns a valid pilot of minimal cost, a valid drone of maximal
\* score, each chosen independently of the other, and total_score equal to
\* (pilot_score + drone_score) / 2.
C17_FindBestAssignment ==
    [][FindBestAssignment =>
        LET mission == missions[1]
            vp == ValidPilotAt(mission, pilots)
            vd == ValidDroneAt(mission, drones)
            b == result'.best
        IN  /\ result'.raised = "none"
            /\ b.found = (vp # {} /\ vd # {})
            /\ b.found =>
                 /\ \E i \in vp :
                       /\ b.pilot = pilots[i]
                       /\ b.pilot_cost = CostOf(mission, pilots[i])
                       /\ b.pilot_score
                             = _calculate_pilot_score(pilots[i], mission, b.pilot_cost)
                 /\ \A k \in vp : b.pilot_cost <= CostOf(mission, pilots[k])
                 /\ \E j \in vd :
                       /\ b.drone = drones[j]
                       /\ b.drone_score = _calculate_drone_score(drones[j], mission)
                 /\ \A k \in vd :
                       b.drone_score >= _calculate_drone_score(drones[k], mission)
                 \* scores: pilot in hundredths, drone in whole points
                 /\ b.total_score_x2 = b.pilot_score + 100 * b.drone_score]_vars

\* the second pilot of the list, cheaper than the first, and the second drone,
\* scoring higher than the first, were returned
C17_Witness ==
    /\ result.op = "find_best"
    /\ result.success
    /\ Len(pilots) = 2
    /\ Len(drones) = 2
    /\ ValidPilotAt(missions[1], pilots) = {1, 2}
    /\ ValidDroneAt(missions[1], drones) = {1, 2}
    /\ CostOf(missions[1], pilots[2]) < CostOf(missions[1], pilots[1])
    /\ _calculate_drone_score(drones[2], missions[1])
          > _calculate_drone_score(drones[1], missions[1])
    /\ result.best.pilot = pilots[2]
    /\ result.best.drone = drones[2]

\* C18: reassign_mission on a mission that has no live assignment, never
\* assigned or assigned and then unassigned, behaves exactly like
\* assign_mission: it does not raise, appends no UNASSIGN entry, and leaves the
\* state and returns the result assign_mission would.
C18_ReassignWithoutLiveIsAssign ==
    [][\A mid \in CallMissionIds, p \in AllPilots, d \in AllDrones :
        (~IsLive(assignments, mid) /\ ReassignMission(mid, p, d))
        => LET e == assign_mission(assignments, assignment_history,
                                   sheetMissions[mid], p, d)
           IN  /\ result'.raised = "none"
               /\ result' = [e.r EXCEPT !.op = "reassign"]
               /\ assignments' = e.a
               /\ assignment_history' = e.h]_vars

\* C19: a REASSIGNED result of handle_urgent_mission never has new_pilot equal
\* to previous_pilot or new_drone equal to previous_drone: the repair does not
\* offer the mission's currently recorded pilot or drone.
C19_RepairExcludesCurrent ==
    [][\A mid \in MissionIds, ok \in BOOLEAN :
        (HandleUrgentReassignment(mid, ok) /\ result'.status = "REASSIGNED")
        => /\ result'.new_pilot # sheetMissions[mid].assigned_pilot
           /\ result'.new_drone # sheetMissions[mid].assigned_drone]_vars

\* the live assignments other than the one of mission mid
OtherLive(a, mid) == {a[k] : k \in Live(a) \ {mid}}

\* C20: find_best_assignment_for_mission, in every state of the live
\* assignment map, returns None or a pilot/drone pair of which neither holds
\* a live assignment of another mission; it does not raise.
C20_BestExcludesAssigned ==
    [][\A i \in 1..Len(MissionOrder) :
        ProcessMissionAssignment(i)
        => LET b == find_best_assignment_for_mission(assignments, missions[i],
                                                     pilots, drones)
           IN  /\ b.raised = "none"
               /\ b.found =>
                    \A s \in OtherLive(assignments, missions[i].project_id) :
                        /\ s.pilot.name # b.pilot.name
                        /\ s.drone.drone_id # b.drone.drone_id]_vars

\* the pilot holds, in the map, a mission overlapping the matched one
HeldOverlapping(assigned, name, mission) ==
    name \in assigned.keys /\ Overlap(mission, assigned.at[name])

\* the positions of the pilots the matching has to return for the map
MatchablePilotAt(mission, ps, assigned) ==
    {i \in ValidPilotAt(mission, ps) : ~HeldOverlapping(assigned, ps[i].name, mission)}

C22_MatchDronesRejects ==
    result.op = "match_drones" =>
        LET mission == missions[1]
            out == result.matched
        IN  /\ result.raised = "none"
            /\ \A k \in 1..Len(out) :
                  /\ out[k].drone.status = "Available"
                  /\ ~HeldOverlapping(result.assigned, out[k].drone.drone_id, mission)
                  /\ out[k].drone.maintenance_due = 0
            /\ \A k \in 1..Len(out) - 1 : out[k].score >= out[k + 1].score

\* the pilot/drone pairs of the full cross product with their combined score
\* (doubled, in hundredths)
ValidPairs(mission, ps, ds) ==
    {[pilot |-> ps[i].name, drone |-> ds[j].drone_id,
      combined_score_x2 |->
          _calculate_pilot_score(ps[i], mission, CostOf(mission, ps[i]))
          + 100 * _calculate_drone_score(ds[j], mission)] :
        i \in ValidPilotAt(mission, ps), j \in ValidDroneAt(mission, ds)}

\* the list holds the n best pairs (or all of them), best first
TopOf(ranked, n, pairs) ==
    /\ Len(ranked) = (IF n < Cardinality(pairs) THEN n ELSE Cardinality(pairs))
    /\ \A k \in 1..Len(ranked) : ranked[k] \in pairs
    /\ \A k \in 1..Len(ranked), l \in 1..Len(ranked) : k # l => ranked[k] # ranked[l]
    /\ \A k \in 1..Len(ranked) - 1 :
          ranked[k].combined_score_x2 >= ranked[k + 1].combined_score_x2
    /\ \A q \in pairs :
          (\A k \in 1..Len(ranked) : ranked[k] # q)
             => \A k \in 1..Len(ranked) : ranked[k].combined_score_x2 >= q.combined_score_x2

\* C23: for a requested top_n, rank_assignments returns the min(top_n, |valid
\* pilots| x |valid drones|) pairs of highest combined score = (pilot_score +
\* drone_score) / 2 of the full cross product, in descending order of combined
\* score; the same holds when the request goes through
\* Controller.get_assignment_recommendations(mission, top_n), whose result has
\* at most top_n recommendations.
C23_TopNRecommendation ==
    result.op \in {"rank", "recommend"} =>
        /\ result.raised = "none"
        /\ TopOf(result.ranked, result.top_n, ValidPairs(missions[1], pilots, drones))
        /\ Len(result.ranked) <= result.top_n

\* the list has a conflict of type DOUBLE_BOOKING
HasDoubleBooking(conflicts) ==
    \E k \in 1..Len(conflicts) : conflicts[k].type = "DOUBLE_BOOKING"

\* another mission of the list, assigned to the resource, overlaps the mission
BookedElsewhere(mission, ms, field, identity) ==
    \E k \in 1..Len(ms) :
        /\ ms[k].project_id # mission.project_id
        /\ ms[k][field] = identity
        /\ Overlap(mission, ms[k])

\* C24: as the Controller calls them with the full mission list,
\* check_pilot_assignment and check_drone_assignment report a DOUBLE_BOOKING
\* conflict for an Available pilot (or drone) exactly when some other mission
\* assigned to that pilot (or drone) overlaps the mission's date range;
\* missions assigned to someone else or to nobody never produce it.
C24_DoubleBookingExact ==
    /\ (result.op = "check_pilot" /\ result.raised = "none"
            /\ pilots[1].status = "Available")
          => (HasDoubleBooking(result.conflicts)
                <=> BookedElsewhere(missions[1], missions, "assigned_pilot", pilots[1].name))
    /\ (result.op = "check_drone" /\ result.raised = "none"
            /\ drones[1].status = "Available")
          => (HasDoubleBooking(result.conflicts)
                <=> BookedElsewhere(missions[1], missions, "assigned_drone", drones[1].drone_id))

\* C25: for every Available pilot and every mission with budget >= 0,
\* budget 0 with a positive daily rate included, check_pilot_assignment
\* returns a list of conflicts without raising, and a pilot whose cost exceeds
\* the budget gets a BUDGET conflict of severity HIGH with overage = cost -
\* budget.
C25_ConflictsAreValues ==
    (result.op = "check_pilot" /\ pilots[1].status = "Available"
        /\ missions[1].mission_budget_inr >= 0)
    => /\ result.raised = "none"
       /\ CostOf(missions[1], pilots[1]) > missions[1].mission_budget_inr
            => \E k \in 1..Len(result.conflicts) :
                  /\ result.conflicts[k].type = "BUDGET"
                  /\ result.conflicts[k].severity = "HIGH"
                  /\ result.conflicts[k].overage
                        = CostOf(missions[1], pilots[1]) - missions[1].mission_budget_inr

\* the findings of the candidates of a list, each against the mission
PilotFindings(mission, ps, ms) ==
    [k \in 1..Len(ps) |-> check_pilot_assignment(ps[k], mission, ms).list]

DroneFindings(mission, ds, ms) ==
    [k \in 1..Len(ds) |-> check_drone_assignment(ds[k], mission, ms).list]

\* how many candidates have no CRITICAL finding
ViableCount(findings) ==
    Cardinality({k \in 1..Len(findings) : CountSeverity(findings[k], TRUE) = 0})

RECURSIVE SumSeverity(_, _)
SumSeverity(findings, critical) ==
    IF findings = <<>> THEN 0
    ELSE CountSeverity(Head(findings), critical) + SumSeverity(Tail(findings), critical)

\* C26: in generate_conflict_report a pilot or drone is viable exactly when it
\* has zero CRITICAL conflicts against the mission, so a pilot whose only
\* finding is the LOCATION warning is counted in viable_pilots;
\* summary.critical_blocks counts the CRITICAL findings and summary.warnings
\* all other findings over the whole candidate pool.
C26_ViableMeansNoCritical ==
    (result.op = "report" /\ result.raised = "none")
    => LET pf == PilotFindings(missions[1], pilots, missions)
           df == DroneFindings(missions[1], drones, missions)
       IN  /\ result.report.viable_pilots = ViableCount(pf)
           /\ result.report.viable_drones = ViableCount(df)
           /\ result.report.critical_blocks = SumSeverity(pf \o df, TRUE)
           /\ result.report.warnings = SumSeverity(pf \o df, FALSE)

----------------------------------------------------------------------------
\* C27: whenever handle_urgent_mission returns REASSIGNED, the manager's
\* reassign_mission call returned success, and the service's live map holds
\* exactly one live assignment for that mission, whose pilot and drone are
\* the new_pilot and new_drone of the result.

\* the live assignments of mission mid in the map a
LiveFor(a, mid) == {k \in DOMAIN a : a[k].live /\ a[k].mission.project_id = mid}

C27_ReassignedMeansStored ==
    (result.op = "urgent" /\ result.status = "REASSIGNED")
    => /\ result.success
       /\ LiveFor(svc_assignments, result.mission_id) = {result.mission_id}
       /\ svc_assignments[result.mission_id].pilot.name = result.new_pilot
       /\ svc_assignments[result.mission_id].drone.drone_id = result.new_drone

\* the second of two overlapping missions was repaired while the first holds
\* a live assignment: the pool for it was filtered by the live map
C27_Witness ==
    /\ result.op = "urgent"
    /\ result.status = "REASSIGNED"
    /\ result.success
    /\ \E other \in DOMAIN svc_assignments :
          /\ other # result.mission_id
          /\ svc_assignments[other].live
          /\ Overlap(svc_assignments[other].mission, svc_assignments[result.mission_id].mission)
          /\ svc_assignments[other].pilot.name # result.new_pilot
          /\ svc_assignments[other].drone.drone_id # result.new_drone

----------------------------------------------------------------------------
\* C30: urgent reassignment never moves a mission backward in its lifecycle:
\* a call of the urgent handler for a mission whose row reads InProgress or
\* Completed does not return REASSIGNED, hands nothing to the service's
\* assignment manager, and leaves the status of the row as it is.
C30_NoBackwardMove ==
    [][\A mid \in MissionIds :
          (/\ reassignment_log' # reassignment_log
           /\ result'.mission_id = mid
           /\ sheetMissions[mid].status \in {"InProgress", "Completed"})
          => /\ result'.status # "REASSIGNED"
             /\ svc_assignments' = svc_assignments
             /\ sheetMissions'[mid].status = sheetMissions[mid].status]_vars

----------------------------------------------------------------------------
\* C28: every UNASSIGNABLE result of process_mission_assignment, a repeated
\* call for a mission that already has a live assignment included, carries a
\* conflict report in which viable_pilots = 0 or viable_drones = 0.
C28_UnassignableExplainsItself ==
    (result.op = "process" /\ result.status = "UNASSIGNABLE")
    => /\ result.report.present
       /\ result.report.viable_pilots = 0 \/ result.report.viable_drones = 0

----------------------------------------------------------------------------
\* C29: under sequential execution process_mission_assignment never returns
\* FAILED: every result it returns is ASSIGNED, and the live map then holds
\* the returned pair for the mission, or UNASSIGNABLE, and the live map and
\* the history are then unchanged.
C29_NeverFailed ==
    [][(result'.op = "process" /\ result'.raised = "none")
       => \/ /\ result'.status = "ASSIGNED"
             /\ IsLive(assignments', result'.mission_id)
             /\ assignments'[result'.mission_id].pilot.name = result'.new_pilot
             /\ assignments'[result'.mission_id].drone.drone_id = result'.new_drone
          \/ /\ result'.status = "UNASSIGNABLE"
             /\ assignments' = assignments
             /\ assignment_history' = assignment_history]_vars

\* a mission was assigned while an overlapping mission holds a live
\* assignment: the pair passed the schedule re-check next to it
C29_Witness ==
    /\ result.op = "process"
    /\ result.status = "ASSIGNED"
    /\ IsLive(assignments, result.mission_id)
    /\ assignments[result.mission_id].pilot.name = result.new_pilot
    /\ \E other \in DOMAIN assignments :
          /\ other # result.mission_id
          /\ assignments[other].live
          /\ Overlap(assignments[other].mission, assignments[result.mission_id].mission)
          /\ assignments[other].pilot.name # result.new_pilot
          /\ assignments[other].drone.drone_id # result.new_drone

====
